---- MODULE Spec2Model ----
(***************************************************************************)
(* Model of the authentication and credential-lifecycle core of           *)
(* rust_todo_app: src/auth.rs (token issue / bearer extraction),          *)
(* src/utils (required fields, password policy and hashing, phone         *)
(* validation) and src/modules/user (routes, service, repository).        *)
(*                                                                         *)
(* Representation.  A Rust String is a sequence of one-character strings  *)
(* (<<"a","@","x">>), so that the validators are computed character by    *)
(* character.  Option<T> is a sequence of length at most one: None = <<>>,*)
(* Some(v) = <<v>>.  A SQL NULL column is None.                            *)
(***************************************************************************)
EXTENDS Integers, Sequences, FiniteSets, TLC

VARIABLES
    users,                      \* table "users": set of rows
    next_id,                    \* the serial sequence behind users.id
    now,                        \* Utc::now().timestamp(), seconds
    session_duration_minutes,   \* AppState.session_duration_minutes
    session,                    \* Option<token>: the token the client holds
    in_flight,                  \* per client, the handler that is suspended
                                \* at an .await on the store
    req,                        \* the request handled last
    resp                        \* the response to it

vars ==
    <<users, next_id, now, session_duration_minutes, session, in_flight, req,
      resp>>

----------------------------------------------------------------------------
(* Bounds of the model. *)

MaxTime == 181         \* the last clock reading of a run
MaxId == 2             \* the last id the users_id sequence hands out
MaxDuration == 2       \* the longest configured session, in minutes
MaxTail == 4           \* the longest free part of a password that is tried
MaxFoneTail == 8       \* the longest free part of a phone that is tried
MaxHashes == 2         \* the most calls of hash_password on one password

(* Program constants. *)

SecondsPerMinute == 60
Leeway == 60
MinPasswordLen == 8
MinFoneDigits == 10
MaxFoneDigits == 15

----------------------------------------------------------------------------
(* Integers.  The id column is an i32; Claims.user_id and the ids the
   service passes are i64.  An i64 is the pair [hi, lo] that stands for
   hi * 2^31 + lo with 0 <= lo < 2^31: it fits an i32 exactly when hi is
   0 (not negative) or -1 (negative). *)

I32Max == 2147483647

\* i64::from(v) of an i32
i64_from(v) ==
    IF v < 0 THEN [hi |-> -1, lo |-> v + I32Max + 1] ELSE [hi |-> 0, lo |-> v]

\* i32::try_from(id) of an i64: whether it is Ok, and the value when it is.
i32_try_from_ok(id) == id.hi \in {-1, 0}
i32_try_from(id) == IF id.hi = 0 THEN id.lo ELSE id.lo - I32Max - 1

\* The least i64 above the i32 range, I32Max + 1.
i64_beyond_i32 == [hi |-> 1, lo |-> 0]

----------------------------------------------------------------------------
(* Strings and options. *)

None == <<>>
Some(v) == <<v>>
IsSome(o) == Len(o) = 1
Unwrap(o) == o[1]

Lowercase == {"a","b","c","d","e","f","g","h","i","j","k","l","m",
              "n","o","p","q","r","s","t","u","v","w","x","y","z"}
Uppercase == {"A","B","C","D","E","F","G","H","I","J","K","L","M",
              "N","O","P","Q","R","S","T","U","V","W","X","Y","Z"}
AsciiDigit == {"0","1","2","3","4","5","6","7","8","9"}
\* \d of the regex crate is the Unicode class Nd: it also matches digits
\* outside ASCII, here ARABIC-INDIC DIGIT THREE (written "u0663").
UnicodeDigit == AsciiDigit \cup {"u0663"}
Special == {"@","$","!","%","*","?","&"}
Whitespace == {" ", "\t", "\n"}

\* Number of positions of s holding a character of class cls.
RECURSIVE CountIn(_, _)
CountIn(s, cls) ==
    IF s = <<>> THEN 0
    ELSE (IF Head(s) \in cls THEN 1 ELSE 0) + CountIn(Tail(s), cls)

\* Regex::is_match for a one-character class: some character is in cls.
is_match(cls, s) == \E i \in 1..Len(s) : s[i] \in cls

\* str::trim().is_empty()
trim_is_empty(s) == \A i \in 1..Len(s) : s[i] \in Whitespace

----------------------------------------------------------------------------
(* src/utils/password.rs *)

\* str::len(): the length in bytes of the UTF-8 encoding.
RECURSIVE str_len(_)
str_len(s) ==
    IF s = <<>> THEN 0
    ELSE (IF Head(s) = "u0663" THEN 2 ELSE 1) + str_len(Tail(s))

\* VALID_CHARS_REGEX  ^[A-Za-z\d@$!%*?&]{8,}$
VALID_CHARS_REGEX_is_match(s) ==
    /\ Len(s) >= MinPasswordLen
    /\ \A i \in 1..Len(s) :
          s[i] \in Lowercase \cup Uppercase \cup UnicodeDigit \cup Special

validate_password(password) ==
    /\ str_len(password) >= MinPasswordLen
    /\ is_match(Lowercase, password)
    /\ is_match(Uppercase, password)
    /\ is_match(UnicodeDigit, password)
    /\ is_match(Special, password)
    /\ VALID_CHARS_REGEX_is_match(password)

\* The Argon2 digest of a password under a salt, as an ideal hash: equal
\* digests only for equal (salt, password).
Argon2(salt, password) == [salt |-> salt, pw |-> password]

\* A PHC hash string "$argon2id$...$salt$digest": well-formed ones carry the
\* salt and the digest; everything else is a string PasswordHash::new rejects.
PhcString(salt, digest) == [phc |-> TRUE, salt |-> salt, digest |-> digest]

\* A stored string that is not a PHC string, such as a password as typed.
PlainString(str) == [phc |-> FALSE, salt |-> "", digest |-> str]

\* Mutant: the password is handed back as it was given.
hash_password_plaintext(password, salt, lib_fails) ==
    [ok |-> TRUE, hash |-> Some(PlainString(password))]

\* Mutant: every call hashes under one and the same salt.
hash_password_fixed_salt(password, salt, lib_fails) ==
    IF lib_fails
    THEN [ok |-> FALSE, hash |-> None]
    ELSE [ok |-> TRUE, hash |-> Some(PhcString("s0", Argon2("s0", password)))]

\* hash_password with the salt SaltString::generate drew and the outcome of
\* the hashing library.  Result<String, String>.
hash_password(password, salt, lib_fails) ==
    IF lib_fails
    THEN [ok |-> FALSE, hash |-> None]
    ELSE [ok |-> TRUE, hash |-> Some(PhcString(salt, Argon2(salt, password)))]

\* Mutant: the stored string is parsed, the candidate is not verified.
password_validation_parse_only(stored_password_hash, password_input) ==
    stored_password_hash.phc

\* Mutant: a stored string that is not a hash is compared as it is.
password_validation_plain_compare(stored_password_hash, password_input) ==
    IF ~stored_password_hash.phc
    THEN stored_password_hash.digest = password_input
    ELSE Argon2(stored_password_hash.salt, password_input)
             = stored_password_hash.digest

password_validation(stored_password_hash, password_input) ==
    IF ~stored_password_hash.phc
    THEN FALSE
    ELSE Argon2(stored_password_hash.salt, password_input)
             = stored_password_hash.digest

----------------------------------------------------------------------------
(* src/utils/fone_validation.rs *)

\* Mutant: the characters are counted without the filter.
validate_fone_unfiltered(fone) ==
    LET len == Len(fone)
    IN  len >= MinFoneDigits /\ len <= MaxFoneDigits

validate_fone(fone) ==
    LET len == CountIn(fone, AsciiDigit)
    IN  len >= MinFoneDigits /\ len <= MaxFoneDigits

----------------------------------------------------------------------------
(* src/auth.rs *)

\* The process secret (JWT_SECRET) and a secret the server does not hold.
ServerKey == "my_secret_key"
Keys == {ServerKey, "wrong_secret"}

\* HMAC-SHA256 of the claims under a key, as an ideal MAC.
HS256(key, claims) == [key |-> key, msg |-> claims]

\* jsonwebtoken::encode: the compact token of the claims signed with key.
encode(claims, key) ==
    [jwt |-> TRUE, typed |-> TRUE, claims |-> claims, sig |-> HS256(key, claims)]

\* Mutant: the two i64 arguments taken for each other.
generate_token_swapped(session_duration, user_id, enconding_key, t) ==
    LET exp == t + i32_try_from(user_id) * SecondsPerMinute
        claims == [iat |-> t, exp |-> exp, user_id |-> i64_from(session_duration)]
    IN  encode(claims, enconding_key)

\* generate_token at clock reading t.  exp is computed here, at issuance.
generate_token(session_duration, user_id, enconding_key, t) ==
    LET exp == t + session_duration * SecondsPerMinute
        claims == [iat |-> t, exp |-> exp, user_id |-> user_id]
    IN  encode(claims, enconding_key)

\* Mutant: validate_exp switched off.
decode_no_exp(token, key, t) ==
    IF ~token.jwt THEN [ok |-> FALSE, err |-> "InvalidToken"]
    ELSE IF token.sig # HS256(key, token.claims)
    THEN [ok |-> FALSE, err |-> "InvalidSignature"]
    ELSE IF ~token.typed
    THEN [ok |-> FALSE, err |-> "MissingRequiredClaim"]
    ELSE [ok |-> TRUE, err |-> "none"]

\* Mutant: the signature is not validated.
decode_no_signature(token, key, t) ==
    IF ~token.jwt THEN [ok |-> FALSE, err |-> "InvalidToken"]
    ELSE IF ~token.typed
    THEN [ok |-> FALSE, err |-> "MissingRequiredClaim"]
    ELSE IF token.claims.exp < t - Leeway
    THEN [ok |-> FALSE, err |-> "ExpiredSignature"]
    ELSE [ok |-> TRUE, err |-> "none"]

\* jsonwebtoken::decode::<Claims>(token, key, &Validation::new(HS256)) at
\* clock reading t: three dot-separated parts, the signature, the payload
\* as claims (exp is required), then exp with the leeway of Validation::new.
decode(token, key, t) ==
    IF ~token.jwt THEN [ok |-> FALSE, err |-> "InvalidToken"]
    ELSE IF token.sig # HS256(key, token.claims)
    THEN [ok |-> FALSE, err |-> "InvalidSignature"]
    ELSE IF ~token.typed
    THEN [ok |-> FALSE, err |-> "MissingRequiredClaim"]
    ELSE IF token.claims.exp < t - Leeway
    THEN [ok |-> FALSE, err |-> "ExpiredSignature"]
    ELSE [ok |-> TRUE, err |-> "none"]

\* A bearer string that is not a token ("invalid.token.format").
NoClaims == [iat |-> 0, exp |-> 0, user_id |-> i64_from(0)]
GarbageToken ==
    [jwt |-> FALSE, typed |-> FALSE, claims |-> NoClaims,
     sig |-> HS256("none", NoClaims)]
\* A signed payload that is not a Claims object (no exp, no user_id).
UntypedToken(key) ==
    [jwt |-> TRUE, typed |-> FALSE, claims |-> NoClaims,
     sig |-> HS256(key, NoClaims)]

\* Authorization headers: absent, another scheme than Bearer, Bearer <token>.
NoHeader == [kind |-> "absent", token |-> GarbageToken]
BasicHeader == [kind |-> "basic", token |-> GarbageToken]
Bearer(token) == [kind |-> "bearer", token |-> token]

\* Mutant: no exp validation by the library; the expiry is derived from iat
\* and the duration configured when the request arrives.
from_request_parts_derived(header, t) ==
    IF header.kind # "bearer"
    THEN [ok |-> FALSE, status |-> 401, claims |-> NoClaims]
    ELSE LET token_data == decode_no_exp(header.token, ServerKey, t)
         IN  IF ~token_data.ok
             THEN [ok |-> FALSE, status |-> 401, claims |-> NoClaims]
             ELSE IF header.token.claims.iat
                        + session_duration_minutes * SecondsPerMinute < t
             THEN [ok |-> FALSE, status |-> 401, claims |-> NoClaims]
             ELSE [ok |-> TRUE, status |-> 200, claims |-> header.token.claims]

\* Claims::from_request_parts at clock reading t.  Ok(claims) or
\* Err(StatusCode::UNAUTHORIZED).
from_request_parts(header, t) ==
    IF header.kind # "bearer"
    THEN [ok |-> FALSE, status |-> 401, claims |-> NoClaims]
    ELSE LET token_data == decode(header.token, ServerKey, t)
         IN  IF ~token_data.ok
             THEN [ok |-> FALSE, status |-> 401, claims |-> NoClaims]
             ELSE [ok |-> TRUE, status |-> 200, claims |-> header.token.claims]

----------------------------------------------------------------------------
(* src/utils/required_fields.rs *)

\* The field types of the structs that are serialized and deserialized.
OptionTypes == {"Option<String>", "Option<i32>", "Option<bool>"}
IsOption(ty) == ty \in OptionTypes
Inner(ty) ==
    CASE ty = "Option<String>" -> "String"
      [] ty = "Option<i32>" -> "i32"
      [] ty = "Option<bool>" -> "bool"
      [] OTHER -> ty

\* serde_json::Value, as far as these types use it: the only numbers the
\* structs hold are i32, so every Number is an integer.
JNull == [t |-> "Null", s |-> <<>>, n |-> 0]
JString(str) == [t |-> "String", s |-> str, n |-> 0]
JNumber(k) == [t |-> "Number", s |-> <<>>, n |-> k]
JBool(b) == [t |-> "Bool", s |-> <<>>, n |-> IF b THEN 1 ELSE 0]

\* Number::as_i64 of an integer that fits, as every i32 does.
as_i64(v) == Some(v.n)

\* The serialization of one value of a type that is not an Option.
to_value_scalar(ty, v) ==
    CASE ty = "String" -> JString(v)
      [] ty = "i32" -> JNumber(v)
      [] ty = "bool" -> JBool(v)

\* serde_json::to_value of a struct whose field types are `source`: an
\* object with every field of the struct, None as null.
to_value(data, source) ==
    [f \in DOMAIN data |->
        IF ~IsOption(source[f]) THEN to_value_scalar(source[f], data[f])
        ELSE IF IsSome(data[f])
        THEN to_value_scalar(Inner(source[f]), Unwrap(data[f]))
        ELSE JNull]

\* Mutant: a number is never reported.
field_is_missing_no_zero(json_value, field) ==
    IF field \notin DOMAIN json_value THEN TRUE
    ELSE LET v == json_value[field]
         IN  \/ v.t = "String" /\ trim_is_empty(v.s)
             \/ v.t = "Null"

\* The match of lines 13-18 for one field: TRUE when the field is reported.
field_is_missing(json_value, field) ==
    IF field \notin DOMAIN json_value THEN TRUE
    ELSE LET v == json_value[field]
         IN  \/ v.t = "String" /\ trim_is_empty(v.s)
             \/ v.t = "Null"
             \/ v.t = "Number" /\ as_i64(v) = Some(0)

\* The loop of lines 12-19: the first reported field, None when there is none.
RECURSIVE first_missing(_, _)
first_missing(json_value, required_fields) ==
    IF required_fields = <<>> THEN None
    ELSE IF field_is_missing(json_value, Head(required_fields))
         THEN Some(Head(required_fields))
         ELSE first_missing(json_value, Tail(required_fields))

\* Whether a value deserializes into a type that is not an Option.
from_value_scalar_ok(ty, v) ==
    CASE ty = "String" -> v.t = "String"
      [] ty = "i32" -> v.t = "Number"
      [] ty = "bool" -> v.t = "Bool"

from_value_scalar(ty, v) ==
    CASE ty = "String" -> v.s
      [] ty = "i32" -> v.n
      [] ty = "bool" -> v.n = 1

\* serde_json::from_value into a struct whose field types are `target`: a
\* field that is absent or null is an error unless its type is an Option;
\* fields the struct does not have are ignored.
from_value_ok(json_value, target) ==
    \A f \in DOMAIN target :
        IF f \notin DOMAIN json_value \/ json_value[f].t = "Null"
        THEN IsOption(target[f])
        ELSE from_value_scalar_ok(Inner(target[f]), json_value[f])

from_value(json_value, target) ==
    [f \in DOMAIN target |->
        IF ~IsOption(target[f])
        THEN from_value_scalar(target[f], json_value[f])
        ELSE IF f \notin DOMAIN json_value \/ json_value[f].t = "Null"
        THEN None
        ELSE Some(from_value_scalar(Inner(target[f]), json_value[f]))]

\* Result<R, String>: err is the name of the field, or the serde failure.
validate_required_fields(data, source, required_fields, target) ==
    LET json_value == to_value(data, source)
        missing == first_missing(json_value, required_fields)
    IN  IF IsSome(missing)
        THEN [ok |-> FALSE, err |-> Unwrap(missing)]
        ELSE IF ~from_value_ok(json_value, target)
        THEN [ok |-> FALSE, err |-> "Failed to deserialize data"]
        ELSE [ok |-> TRUE, err |-> "", value |-> from_value(json_value, target)]

\* The request types of src/modules/user/interfaces.rs and their validated
\* forms.
UserSignUp ==
    [username |-> "Option<String>", name |-> "Option<String>",
     surname |-> "Option<String>", email |-> "Option<String>",
     fone |-> "Option<String>", password |-> "Option<String>"]
ValidatedUserSignUp ==
    [username |-> "String", name |-> "String", surname |-> "String",
     email |-> "String", fone |-> "String", password |-> "String"]
LoginUserRequest ==
    [username |-> "Option<String>", password |-> "Option<String>"]
ValidatedLoginUserRequest == [username |-> "String", password |-> "String"]
UpdatePasswordRequest ==
    [current_password |-> "Option<String>", new_password |-> "Option<String>"]

\* The types of the tests of src/utils/required_fields.rs.
TestData ==
    [name |-> "Option<String>", email |-> "Option<String>",
     age |-> "Option<i32>", active |-> "Option<bool>"]
ValidatedTestData ==
    [name |-> "String", email |-> "String", age |-> "i32", active |-> "bool"]

----------------------------------------------------------------------------
(* email_address::EmailAddress::is_valid, as used by service.rs:78: one "@"
   that separates a non-empty local part from a non-empty domain, and no
   whitespace. *)

EmailAddress_is_valid(email) ==
    /\ CountIn(email, {"@"}) = 1
    /\ Len(email) >= 3
    /\ email[1] # "@"
    /\ email[Len(email)] # "@"
    /\ CountIn(email, Whitespace) = 0

----------------------------------------------------------------------------
(* src/modules/user/repository.rs.  The table is a function from the ids of
   its rows to the rows.  Every call is fallible I/O: `io_fails` is the
   outcome of the connection for that call.  The timestamp columns
   (created_at, updated_at, activated_at) are not tracked. *)


\* Mutant: the username lookup never finds a row.
exists_user_by_username_never(tbl, username, io_fails) ==
    IF io_fails THEN [ok |-> FALSE, exists |-> None]
    ELSE [ok |-> TRUE, exists |-> Some(FALSE)]

\* Result<Option<bool>, Error>
exists_user_by_username(tbl, username, io_fails) ==
    IF io_fails THEN [ok |-> FALSE, exists |-> None]
    ELSE [ok |-> TRUE,
          exists |-> Some(\E i \in DOMAIN tbl : tbl[i].username = username)]

exists_user_by_email(tbl, email, io_fails) ==
    IF io_fails THEN [ok |-> FALSE, exists |-> None]
    ELSE [ok |-> TRUE,
          exists |-> Some(\E i \in DOMAIN tbl : tbl[i].email = email)]

\* Mutant: the table has no unique index.
unique_violation_never(tbl, user_signup) == FALSE

\* The unique indices of the table on username and on email: an INSERT of a
\* row whose username or email some row already has is refused, and the
\* statement returns an error as it does when the store fails.  When requests
\* run one at a time the lookups of create_user have already refused such a
\* row, so the indices decide only the INSERT of an interleaved signup.
unique_violation(tbl, user_signup) ==
    \E i \in DOMAIN tbl :
        \/ tbl[i].username = user_signup.username
        \/ tbl[i].email = user_signup.email

\* Mutant: the row is inserted inactive.
UserRepository_create_user_inactive(tbl, nid, user_signup, t, io_fails) ==
    IF io_fails THEN [ok |-> FALSE, tbl |-> tbl, nid |-> nid, id |-> 0]
    ELSE LET row == [id |-> nid,
                     username |-> user_signup.username,
                     email |-> user_signup.email,
                     password |-> user_signup.password,
                     name |-> Some(user_signup.name),
                     surname |-> Some(user_signup.surname),
                     fone |-> Some(user_signup.fone),
                     active |-> FALSE]
         IN  [ok |-> TRUE,
              tbl |-> [i \in DOMAIN tbl \cup {nid} |->
                          IF i = nid THEN row ELSE tbl[i]],
              nid |-> nid + 1,
              id |-> nid]

\* INSERT ... RETURNING id.  nid is the next value of the id sequence.
UserRepository_create_user(tbl, nid, user_signup, t, io_fails) ==
    IF io_fails THEN [ok |-> FALSE, tbl |-> tbl, nid |-> nid, id |-> 0]
    ELSE LET row == [id |-> nid,
                     username |-> user_signup.username,
                     email |-> user_signup.email,
                     password |-> user_signup.password,
                     name |-> Some(user_signup.name),
                     surname |-> Some(user_signup.surname),
                     fone |-> Some(user_signup.fone),
                     active |-> TRUE]
         IN  [ok |-> TRUE,
              tbl |-> [i \in DOMAIN tbl \cup {nid} |->
                          IF i = nid THEN row ELSE tbl[i]],
              nid |-> nid + 1,
              id |-> nid]

\* fetch_one: RowNotFound without a row; with several rows, the first one the
\* scan returns, which may be any of them.
get_user_for_login_results(tbl, username, io_fails) ==
    LET hits == {i \in DOMAIN tbl : tbl[i].username = username}
    IN  IF io_fails \/ hits = {}
        THEN {[ok |-> FALSE, id |-> i64_from(0)]}
        ELSE {[ok |-> TRUE, id |-> i64_from(i), password |-> tbl[i].password] :
                 i \in hits}

get_user_for_login(tbl, username, io_fails) ==
    CHOOSE r \in get_user_for_login_results(tbl, username, io_fails) : TRUE

\* Mutant: the projection carries the password column too.
FetchUserResponse_with_password(row) ==
    [username |-> row.username, name |-> row.name, surname |-> row.surname,
     email |-> row.email, fone |-> row.fone, active |-> row.active,
     password |-> row.password]

\* The projection of a row that FetchUserResponse carries.
FetchUserResponse(row) ==
    [username |-> row.username, name |-> row.name, surname |-> row.surname,
     email |-> row.email, fone |-> row.fone, active |-> row.active]

fetch_user(tbl, id, io_fails) ==
    IF ~i32_try_from_ok(id) \/ io_fails \/ i32_try_from(id) \notin DOMAIN tbl
    THEN [ok |-> FALSE]
    ELSE [ok |-> TRUE, user |-> FetchUserResponse(tbl[i32_try_from(id)])]

\* Mutant: the statement inserts the row when none has the id.
UserRepository_update_user_upsert(tbl, id, name, surname, fone, t, io_fails) ==
    IF ~i32_try_from_ok(id) \/ io_fails THEN [ok |-> FALSE, tbl |-> tbl]
    ELSE [ok |-> TRUE,
          tbl |-> [i \in DOMAIN tbl \cup {i32_try_from(id)} |->
                     IF i = i32_try_from(id)
                     THEN [id |-> i, username |-> <<>>, email |-> <<>>,
                           password |-> PlainString(<<>>), name |-> name,
                           surname |-> surname, fone |-> fone,
                           active |-> TRUE]
                     ELSE tbl[i]]]

\* UPDATE users SET name = $1, surname = $2, fone = $3, updated_at = NOW()
\* WHERE id = $4: the three columns take the parameters as they are, NULL for
\* None; no row matching is not an error.
UserRepository_update_user(tbl, id, name, surname, fone, t, io_fails) ==
    IF ~i32_try_from_ok(id) \/ io_fails THEN [ok |-> FALSE, tbl |-> tbl]
    ELSE [ok |-> TRUE,
          tbl |-> [i \in DOMAIN tbl |->
                     IF i = i32_try_from(id)
                     THEN [tbl[i] EXCEPT !.name = name, !.surname = surname,
                                         !.fone = fone]
                     ELSE tbl[i]]]

\* Mutant: the UPDATE has no WHERE clause.
UserRepository_update_password_everyone(tbl, id, new_password, t, io_fails) ==
    IF ~i32_try_from_ok(id) \/ io_fails THEN [ok |-> FALSE, tbl |-> tbl]
    ELSE [ok |-> TRUE,
          tbl |-> [i \in DOMAIN tbl |->
                     [tbl[i] EXCEPT !.password = new_password]]]

\* Mutant: the statement reports success and writes nothing.
UserRepository_update_password_noop(tbl, id, new_password, t, io_fails) ==
    IF ~i32_try_from_ok(id) \/ io_fails THEN [ok |-> FALSE, tbl |-> tbl]
    ELSE [ok |-> TRUE, tbl |-> tbl]

\* UPDATE users SET password = $1, updated_at = NOW() WHERE id = $2
UserRepository_update_password(tbl, id, new_password, t, io_fails) ==
    IF ~i32_try_from_ok(id) \/ io_fails THEN [ok |-> FALSE, tbl |-> tbl]
    ELSE [ok |-> TRUE,
          tbl |-> [i \in DOMAIN tbl |->
                     IF i = i32_try_from(id)
                     THEN [tbl[i] EXCEPT !.password = new_password]
                     ELSE tbl[i]]]

\* DELETE FROM users WHERE id = $1: no row matching is not an error.
UserRepository_delete_user(tbl, id, io_fails) ==
    IF ~i32_try_from_ok(id) \/ io_fails THEN [ok |-> FALSE, tbl |-> tbl]
    ELSE [ok |-> TRUE,
          tbl |-> [i \in DOMAIN tbl \ {i32_try_from(id)} |-> tbl[i]]]

----------------------------------------------------------------------------
(* src/modules/user/service.rs.  Every method is one pass; `env` holds what
   the environment decides during the request: env.fail, the position of the
   store call that fails (0 for none), env.salt, the salt the hasher draws,
   env.hash_fails and env.sign_fails, the outcome of the two libraries.
   `calls` is the sequence of store calls issued. *)

Msg(text) == [text |-> text, detail |-> ""]
MsgOf(text, detail) == [text |-> text, detail |-> detail]

ServiceErr(message, tbl, nid, calls) ==
    [ok |-> FALSE, message |-> message, tbl |-> tbl, nid |-> nid,
     calls |-> calls]

\* The five checks of create_user on a validated signup.  Each yields the
\* store call it issues ("" for none) and the error it returns (None when it
\* passes).
check_username(tbl, validated_user, env) ==
    LET by_username == exists_user_by_username(tbl, validated_user.username,
                                               env.fail = 1)
    IN  [call |-> "exists_user_by_username",
         err |-> IF ~by_username.ok THEN Some(MsgOf("Database error", "e"))
                 ELSE IF by_username.exists = Some(TRUE)
                 THEN Some(Msg("Username already exists"))
                 ELSE None]

check_email(tbl, validated_user, env) ==
    LET by_email == exists_user_by_email(tbl, validated_user.email,
                                         env.fail = 2)
    IN  [call |-> "exists_user_by_email",
         err |-> IF ~by_email.ok THEN Some(MsgOf("Database error", "e"))
                 ELSE IF by_email.exists = Some(TRUE)
                 THEN Some(Msg("Email already exists"))
                 ELSE None]

check_email_format(validated_user) ==
    [call |-> "",
     err |-> IF ~EmailAddress_is_valid(validated_user.email)
             THEN Some(Msg("Email is not valid")) ELSE None]

check_password(validated_user) ==
    [call |-> "",
     err |-> IF ~validate_password(validated_user.password)
             THEN Some(Msg("Password is not valid")) ELSE None]

check_fone(validated_user) ==
    [call |-> "",
     err |-> IF ~validate_fone(validated_user.fone)
             THEN Some(Msg("Fone is not valid")) ELSE None]

\* Mutant: the email lookup placed before the username lookup.
create_user_checks_email_first(tbl, validated_user, env) ==
    << check_email(tbl, validated_user, env),
       check_username(tbl, validated_user, env),
       check_email_format(validated_user),
       check_password(validated_user),
       check_fone(validated_user) >>

\* Mutant: the password policy placed before the two lookups.
create_user_checks_password_first(tbl, validated_user, env) ==
    << check_password(validated_user),
       check_username(tbl, validated_user, env),
       check_email(tbl, validated_user, env),
       check_email_format(validated_user),
       check_fone(validated_user) >>

\* Lines 55-91 of create_user: the checks in the order the code applies them.
create_user_checks(tbl, validated_user, env) ==
    << check_username(tbl, validated_user, env),
       check_email(tbl, validated_user, env),
       check_email_format(validated_user),
       check_password(validated_user),
       check_fone(validated_user) >>

\* The position of the first check that returns, 0 when all pass.
first_error(checks) ==
    IF \E k \in 1..Len(checks) : IsSome(checks[k].err)
    THEN CHOOSE k \in 1..Len(checks) :
            /\ IsSome(checks[k].err)
            /\ \A m \in 1..(k - 1) : ~IsSome(checks[m].err)
    ELSE 0

\* The store calls issued by the first k checks.
RECURSIVE calls_of(_, _)
calls_of(checks, k) ==
    IF k = 0 THEN <<>>
    ELSE LET before == calls_of(checks, k - 1)
         IN  IF checks[k].call = "" THEN before
             ELSE Append(before, checks[k].call)

UserService_create_user(tbl, nid, user_signup, env, t) ==
    LET required_fields ==
            <<"username", "email", "password", "fone", "name", "surname">>
        validated == validate_required_fields(user_signup, UserSignUp,
                         required_fields, ValidatedUserSignUp)
    IN
    IF ~validated.ok
    THEN ServiceErr(MsgOf("Missing required fields", validated.err),
                    tbl, nid, <<>>)
    ELSE
    LET validated_user == validated.value
        checks == create_user_checks(tbl, validated_user, env)
        k == first_error(checks)
    IN
    IF k # 0
    THEN ServiceErr(Unwrap(checks[k].err), tbl, nid, calls_of(checks, k))
    ELSE
    LET c2 == calls_of(checks, Len(checks))
        hashed_password == hash_password(validated_user.password, env.salt,
                                         env.hash_fails)
    IN
    IF ~hashed_password.ok
    THEN ServiceErr(MsgOf("Password hashing error", "e"), tbl, nid, c2)
    ELSE
    LET c3 == Append(c2, "create_user")
        to_store == [validated_user EXCEPT
                        !.password = Unwrap(hashed_password.hash)]
        created == UserRepository_create_user(tbl, nid, to_store, t,
                                              env.fail = 3)
    IN
    IF created.ok
    THEN [ok |-> TRUE, message |-> Msg("User created"), id |-> created.id,
          tbl |-> created.tbl, nid |-> created.nid, calls |-> c3]
    ELSE ServiceErr(MsgOf("Database error", "e"), tbl, nid, c3)

\* Mutant: an unknown username gets a message of its own.
UserService_login_user_leaky(tbl, nid, user_login, enconding_key, session_duration, env, t) ==
    LET required_fields == <<"username", "password">>
        validated == validate_required_fields(user_login, LoginUserRequest,
                         required_fields, ValidatedLoginUserRequest)
    IN
    IF ~validated.ok
    THEN ServiceErr(MsgOf("Missing required fields", validated.err),
                    tbl, nid, <<>>)
    ELSE
    LET validated_user == validated.value
        c1 == <<"get_user_for_login">>
        user_info == get_user_for_login(tbl, validated_user.username,
                                        env.fail = 1)
    IN
    IF ~user_info.ok
    THEN ServiceErr(Msg("User not found"), tbl, nid, c1)
    ELSE IF ~password_validation(user_info.password, validated_user.password)
    THEN ServiceErr(Msg("Username and Password invalid"), tbl, nid, c1)
    ELSE IF env.sign_fails
    THEN ServiceErr(Msg("Username and Password invalid"), tbl, nid, c1)
    ELSE [ok |-> TRUE, message |-> Msg("User logged in"),
          token |-> generate_token(session_duration, user_info.id,
                                   enconding_key, t),
          tbl |-> tbl, nid |-> nid, calls |-> c1]

UserService_login_user(tbl, nid, user_login, enconding_key, session_duration, env, t) ==
    LET required_fields == <<"username", "password">>
        validated == validate_required_fields(user_login, LoginUserRequest,
                         required_fields, ValidatedLoginUserRequest)
    IN
    IF ~validated.ok
    THEN ServiceErr(MsgOf("Missing required fields", validated.err),
                    tbl, nid, <<>>)
    ELSE
    LET validated_user == validated.value
        user == validated_user.username
        c1 == <<"get_user_for_login">>
        user_info == get_user_for_login(tbl, user, env.fail = 1)
    IN
    IF ~user_info.ok
    THEN ServiceErr(Msg("Username and Password invalid"), tbl, nid, c1)
    ELSE IF ~password_validation(user_info.password, validated_user.password)
    THEN ServiceErr(Msg("Username and Password invalid"), tbl, nid, c1)
    ELSE IF env.sign_fails
    THEN ServiceErr(Msg("Username and Password invalid"), tbl, nid, c1)
    ELSE [ok |-> TRUE, message |-> Msg("User logged in"),
          token |-> generate_token(session_duration, user_info.id,
                                   enconding_key, t),
          tbl |-> tbl, nid |-> nid, calls |-> c1]

\* Mutant: the error tells a failure of the store from a missing row.
UserService_fetch_user_telling(tbl, nid, id, env) ==
    LET user == fetch_user(tbl, id, env.fail = 1)
    IN  IF ~user.ok
        THEN ServiceErr(IF ~i32_try_from_ok(id) \/ i32_try_from(id) \in DOMAIN tbl
                        THEN MsgOf("Database error", "e")
                        ELSE Msg("User not found"),
                        tbl, nid, <<"fetch_user">>)
        ELSE [ok |-> TRUE, message |-> Msg(""), user |-> user.user,
              tbl |-> tbl, nid |-> nid, calls |-> <<"fetch_user">>]

UserService_fetch_user(tbl, nid, id, env) ==
    LET user == fetch_user(tbl, id, env.fail = 1)
    IN  IF ~user.ok
        THEN ServiceErr(Msg("User not found"), tbl, nid, <<"fetch_user">>)
        ELSE [ok |-> TRUE, message |-> Msg(""), user |-> user.user,
              tbl |-> tbl, nid |-> nid, calls |-> <<"fetch_user">>]

\* Mutant: the phone of the request is not validated.
UserService_update_user_unchecked(tbl, nid, id, update_request, env, t) ==
    LET updated == UserRepository_update_user(tbl, id, update_request.name,
                       update_request.surname, update_request.fone, t,
                       env.fail = 1)
    IN  IF updated.ok
        THEN [ok |-> TRUE, message |-> Msg("User updated successfully"),
              tbl |-> updated.tbl, nid |-> nid, calls |-> <<"update_user">>]
        ELSE ServiceErr(Msg("Failed to update user"), tbl, nid,
                        <<"update_user">>)

UserService_update_user(tbl, nid, id, update_request, env, t) ==
    IF IsSome(update_request.fone) /\ ~validate_fone(Unwrap(update_request.fone))
    THEN ServiceErr(Msg("Fone is not valid"), tbl, nid, <<>>)
    ELSE
    LET updated == UserRepository_update_user(tbl, id, update_request.name,
                       update_request.surname, update_request.fone, t,
                       env.fail = 1)
    IN  IF updated.ok
        THEN [ok |-> TRUE, message |-> Msg("User updated successfully"),
              tbl |-> updated.tbl, nid |-> nid, calls |-> <<"update_user">>]
        ELSE ServiceErr(Msg("Failed to update user"), tbl, nid,
                        <<"update_user">>)

UserService_update_password(tbl, nid, id, password_request, env, t) ==
    LET required_fields == <<"current_password", "new_password">>
        validated == validate_required_fields(password_request,
                         UpdatePasswordRequest, required_fields,
                         UpdatePasswordRequest)
    IN
    IF ~validated.ok
    THEN ServiceErr(MsgOf("Missing required fields", validated.err),
                    tbl, nid, <<>>)
    ELSE
    LET validated_request == validated.value
        c1 == <<"fetch_user">>
        first == fetch_user(tbl, id, env.fail = 1)
    IN
    IF ~first.ok THEN ServiceErr(Msg("User not found"), tbl, nid, c1)
    ELSE
    LET c2 == Append(c1, "fetch_user")
        user == fetch_user(tbl, id, env.fail = 2)
    IN
    IF ~user.ok THEN ServiceErr(Msg("User not found"), tbl, nid, c2)
    ELSE
    LET c3 == Append(c2, "get_user_for_login")
        user_info == get_user_for_login(tbl, user.user.username, env.fail = 3)
    IN
    IF ~user_info.ok THEN ServiceErr(Msg("User not found"), tbl, nid, c3)
    ELSE IF ~IsSome(validated_request.current_password)
    THEN ServiceErr(Msg("Current password is required"), tbl, nid, c3)
    ELSE IF ~password_validation(user_info.password,
                                 Unwrap(validated_request.current_password))
    THEN ServiceErr(Msg("Current password is incorrect"), tbl, nid, c3)
    ELSE IF ~IsSome(validated_request.new_password)
    THEN ServiceErr(Msg("New password is required"), tbl, nid, c3)
    ELSE IF ~validate_password(Unwrap(validated_request.new_password))
    THEN ServiceErr(Msg("New password is not valid"), tbl, nid, c3)
    ELSE
    LET hashed_password == hash_password(
                               Unwrap(validated_request.new_password),
                               env.salt, env.hash_fails)
    IN
    IF ~hashed_password.ok
    THEN ServiceErr(MsgOf("Password hashing error", "e"), tbl, nid, c3)
    ELSE
    LET c4 == Append(c3, "update_password")
        updated == UserRepository_update_password(tbl, id,
                       Unwrap(hashed_password.hash), t, env.fail = 4)
    IN  IF updated.ok
        THEN [ok |-> TRUE, message |-> Msg("Password updated successfully"),
              tbl |-> updated.tbl, nid |-> nid, calls |-> c4]
        ELSE ServiceErr(Msg("Failed to update password"), tbl, nid, c4)

\* Mutant: a failed DELETE is issued once more.
UserService_delete_user_retrying(tbl, nid, id, env) ==
    LET deleted == UserRepository_delete_user(tbl, id, env.fail = 1)
        again == UserRepository_delete_user(tbl, id, FALSE)
    IN  IF deleted.ok
        THEN [ok |-> TRUE, message |-> Msg("User deleted successfully"),
              tbl |-> deleted.tbl, nid |-> nid, calls |-> <<"delete_user">>]
        ELSE IF again.ok
        THEN [ok |-> TRUE, message |-> Msg("User deleted successfully"),
              tbl |-> again.tbl, nid |-> nid,
              calls |-> <<"delete_user", "delete_user">>]
        ELSE ServiceErr(Msg("Failed to delete user"), tbl, nid,
                        <<"delete_user", "delete_user">>)

UserService_delete_user(tbl, nid, id, env) ==
    LET deleted == UserRepository_delete_user(tbl, id, env.fail = 1)
    IN  IF deleted.ok
        THEN [ok |-> TRUE, message |-> Msg("User deleted successfully"),
              tbl |-> deleted.tbl, nid |-> nid, calls |-> <<"delete_user">>]
        ELSE ServiceErr(Msg("Failed to delete user"), tbl, nid,
                        <<"delete_user">>)

\* The same two methods as the executor runs them.  A method is a future
\* that is suspended at each .await on the store, where other requests are
\* served; `future` holds what is live across the .await: pc, the position of
\* the store call that comes next, and the locals.  _start runs the method
\* up to its first .await, _resume runs it from one .await to the next.
\* Either yields the result when the method returns (done), the suspended
\* future otherwise.

UserService_create_user_start(tbl, nid, user_signup) ==
    LET required_fields ==
            <<"username", "email", "password", "fone", "name", "surname">>
        validated == validate_required_fields(user_signup, UserSignUp,
                         required_fields, ValidatedUserSignUp)
    IN  IF ~validated.ok
        THEN [done |-> TRUE,
              r |-> ServiceErr(MsgOf("Missing required fields", validated.err),
                               tbl, nid, <<>>)]
        ELSE [done |-> FALSE,
              future |-> [pc |-> 1, validated_user |-> validated.value]]

\* pc 1: the lookup by username; pc 2: the lookup by email, then the local
\* checks and the hashing, which do not suspend; pc 3: the INSERT.
UserService_create_user_resume(tbl, nid, future, env, t) ==
    LET validated_user == future.validated_user
        checks == create_user_checks(tbl, validated_user, env)
        c1 == calls_of(checks, 1)
        Return(message, calls) ==
            [done |-> TRUE, r |-> ServiceErr(message, tbl, nid, calls)]
        Await(next) == [done |-> FALSE, future |-> next]
    IN
    CASE future.pc = 1 ->
           IF IsSome(checks[1].err) THEN Return(Unwrap(checks[1].err), c1)
           ELSE Await([future EXCEPT !.pc = 2])
      [] future.pc = 2 ->
           LET rest == Tail(checks)
               k == first_error(rest)
               c2 == c1 \o calls_of(rest, Len(rest))
               hashed_password == hash_password(validated_user.password,
                                                env.salt, env.hash_fails)
           IN  IF k # 0
               THEN Return(Unwrap(rest[k].err), c1 \o calls_of(rest, k))
               ELSE IF ~hashed_password.ok
               THEN Return(MsgOf("Password hashing error", "e"), c2)
               ELSE Await([pc |-> 3,
                           validated_user |->
                               [validated_user EXCEPT
                                   !.password = Unwrap(hashed_password.hash)]])
      [] future.pc = 3 ->
           LET c3 == <<"exists_user_by_username", "exists_user_by_email",
                       "create_user">>
               created == UserRepository_create_user(
                              tbl, nid, validated_user, t,
                              env.fail = 3
                                  \/ unique_violation(tbl, validated_user))
           IN  IF created.ok
               THEN [done |-> TRUE,
                     r |-> [ok |-> TRUE, message |-> Msg("User created"),
                            id |-> created.id, tbl |-> created.tbl,
                            nid |-> created.nid, calls |-> c3]]
               ELSE Return(MsgOf("Database error", "e"), c3)

UserService_update_user_start(tbl, nid, id, update_request) ==
    IF IsSome(update_request.fone) /\ ~validate_fone(Unwrap(update_request.fone))
    THEN [done |-> TRUE,
          r |-> ServiceErr(Msg("Fone is not valid"), tbl, nid, <<>>)]
    ELSE [done |-> FALSE,
          future |-> [pc |-> 1, id |-> id, update_request |-> update_request]]

UserService_update_user_resume(tbl, nid, future, env, t) ==
    LET updated == UserRepository_update_user(tbl, future.id,
                       future.update_request.name, future.update_request.surname,
                       future.update_request.fone, t, env.fail = 1)
    IN  [done |-> TRUE,
         r |-> IF updated.ok
               THEN [ok |-> TRUE, message |-> Msg("User updated successfully"),
                     tbl |-> updated.tbl, nid |-> nid,
                     calls |-> <<"update_user">>]
               ELSE ServiceErr(Msg("Failed to update user"), tbl, nid,
                               <<"update_user">>)]

UserService_update_password_start(tbl, nid, id, password_request) ==
    LET required_fields == <<"current_password", "new_password">>
        validated == validate_required_fields(password_request,
                         UpdatePasswordRequest, required_fields,
                         UpdatePasswordRequest)
    IN  IF ~validated.ok
        THEN [done |-> TRUE,
              r |-> ServiceErr(MsgOf("Missing required fields", validated.err),
                               tbl, nid, <<>>)]
        ELSE [done |-> FALSE,
              future |-> [pc |-> 1, id |-> id,
                        validated_request |-> validated.value,
                        username |-> <<>>, hashed_password |-> None]]

UserService_update_password_resume(tbl, nid, future, env, t) ==
    LET validated_request == future.validated_request
        c1 == <<"fetch_user">>
        c2 == Append(c1, "fetch_user")
        c3 == Append(c2, "get_user_for_login")
        c4 == Append(c3, "update_password")
        Return(message, calls) ==
            [done |-> TRUE, r |-> ServiceErr(message, tbl, nid, calls)]
        Await(next) == [done |-> FALSE, future |-> next]
    IN
    CASE future.pc = 1 ->
           IF ~fetch_user(tbl, future.id, env.fail = 1).ok
           THEN Return(Msg("User not found"), c1)
           ELSE Await([future EXCEPT !.pc = 2])
      [] future.pc = 2 ->
           LET user == fetch_user(tbl, future.id, env.fail = 2)
           IN  IF ~user.ok THEN Return(Msg("User not found"), c2)
               ELSE Await([future EXCEPT !.pc = 3,
                                       !.username = user.user.username])
      [] future.pc = 3 ->
           LET user_info == get_user_for_login(tbl, future.username,
                                               env.fail = 3)
           IN
           IF ~user_info.ok THEN Return(Msg("User not found"), c3)
           ELSE IF ~IsSome(validated_request.current_password)
           THEN Return(Msg("Current password is required"), c3)
           ELSE IF ~password_validation(user_info.password,
                        Unwrap(validated_request.current_password))
           THEN Return(Msg("Current password is incorrect"), c3)
           ELSE IF ~IsSome(validated_request.new_password)
           THEN Return(Msg("New password is required"), c3)
           ELSE IF ~validate_password(Unwrap(validated_request.new_password))
           THEN Return(Msg("New password is not valid"), c3)
           ELSE
           LET hashed_password == hash_password(
                                      Unwrap(validated_request.new_password),
                                      env.salt, env.hash_fails)
           IN  IF ~hashed_password.ok
               THEN Return(MsgOf("Password hashing error", "e"), c3)
               ELSE Await([future EXCEPT !.pc = 4,
                               !.hashed_password = hashed_password.hash])
      [] future.pc = 4 ->
           LET updated == UserRepository_update_password(tbl, future.id,
                              Unwrap(future.hashed_password), t, env.fail = 4)
           IN  IF updated.ok
               THEN [done |-> TRUE,
                     r |-> [ok |-> TRUE,
                            message |-> Msg("Password updated successfully"),
                            tbl |-> updated.tbl, nid |-> nid, calls |-> c4]]
               ELSE Return(Msg("Failed to update password"), c4)

----------------------------------------------------------------------------
(* src/modules/user/routes.rs.  A route maps the outcome of the service to a
   status; on the four protected routes the Claims extractor runs first and
   its rejection is the response.  `invoked` tells whether the service
   method was entered. *)

Rejected(status, tbl, nid) ==
    [status |-> status, ok |-> FALSE, message |-> Msg(""), invoked |-> FALSE,
     calls |-> <<>>, tbl |-> tbl, nid |-> nid]

Respond(r, ok_status, err_status) ==
    r @@ [status |-> IF r.ok THEN ok_status ELSE err_status,
          invoked |-> TRUE]

create_user_route(tbl, nid, user_signup, env, t) ==
    Respond(UserService_create_user(tbl, nid, user_signup, env, t), 201, 400)

login_user_route(tbl, nid, user_login, duration, env, t) ==
    Respond(UserService_login_user(tbl, nid, user_login, ServerKey, duration,
                                   env, t), 201, 401)

\* Mutant: the token of a user without a row is refused.
fetch_user_route_known_user(tbl, nid, header, env, t) ==
    LET claims == from_request_parts(header, t)
    IN  IF ~claims.ok THEN Rejected(claims.status, tbl, nid)
        ELSE IF ~i32_try_from_ok(claims.claims.user_id)
                \/ i32_try_from(claims.claims.user_id) \notin DOMAIN tbl
        THEN Rejected(401, tbl, nid)
        ELSE Respond(UserService_fetch_user(tbl, nid, claims.claims.user_id,
                                            env), 200, 500)

fetch_user_route(tbl, nid, header, env, t) ==
    LET claims == from_request_parts(header, t)
    IN  IF ~claims.ok THEN Rejected(claims.status, tbl, nid)
        ELSE Respond(UserService_fetch_user(tbl, nid, claims.claims.user_id,
                                            env), 200, 500)

update_user_route(tbl, nid, header, update_request, env, t) ==
    LET claims == from_request_parts(header, t)
    IN  IF ~claims.ok THEN Rejected(claims.status, tbl, nid)
        ELSE Respond(UserService_update_user(tbl, nid, claims.claims.user_id,
                                             update_request, env, t), 200, 400)

\* Mutant: an error of change-password is answered as unauthorized.
update_password_route_unauthorized(tbl, nid, header, password_request, env, t) ==
    LET claims == from_request_parts(header, t)
    IN  IF ~claims.ok THEN Rejected(claims.status, tbl, nid)
        ELSE Respond(UserService_update_password(tbl, nid,
                         claims.claims.user_id, password_request, env, t),
                     200, 401)

update_password_route(tbl, nid, header, password_request, env, t) ==
    LET claims == from_request_parts(header, t)
    IN  IF ~claims.ok THEN Rejected(claims.status, tbl, nid)
        ELSE Respond(UserService_update_password(tbl, nid,
                         claims.claims.user_id, password_request, env, t),
                     200, 400)

\* Mutant: the claims are read from the token without the extractor.
delete_user_route_unguarded(tbl, nid, header, env, t) ==
    Respond(UserService_delete_user(tbl, nid, header.token.claims.user_id,
                                    env), 200, 500)

delete_user_route(tbl, nid, header, env, t) ==
    LET claims == from_request_parts(header, t)
    IN  IF ~claims.ok THEN Rejected(claims.status, tbl, nid)
        ELSE Respond(UserService_delete_user(tbl, nid, claims.claims.user_id,
                                             env), 200, 500)

\* The two routes as the executor runs them: the extractor and the start of
\* the method, then the method from one .await to the next.
Returned(s, ok_status, err_status) ==
    IF s.done THEN [done |-> TRUE, r |-> Respond(s.r, ok_status, err_status)]
    ELSE s

create_user_route_start(tbl, nid, user_signup, t) ==
    Returned(UserService_create_user_start(tbl, nid, user_signup), 201, 400)

create_user_route_resume(tbl, nid, future, env, t) ==
    Returned(UserService_create_user_resume(tbl, nid, future, env, t), 201, 400)

update_user_route_start(tbl, nid, header, update_request, t) ==
    LET claims == from_request_parts(header, t)
    IN  IF ~claims.ok
        THEN [done |-> TRUE, r |-> Rejected(claims.status, tbl, nid)]
        ELSE Returned(UserService_update_user_start(tbl, nid,
                          claims.claims.user_id, update_request), 200, 400)

update_user_route_resume(tbl, nid, future, env, t) ==
    Returned(UserService_update_user_resume(tbl, nid, future, env, t), 200, 400)

update_password_route_start(tbl, nid, header, password_request, t) ==
    LET claims == from_request_parts(header, t)
    IN  IF ~claims.ok
        THEN [done |-> TRUE, r |-> Rejected(claims.status, tbl, nid)]
        ELSE Returned(UserService_update_password_start(tbl, nid,
                          claims.claims.user_id, password_request), 200, 400)

update_password_route_resume(tbl, nid, future, env, t) ==
    Returned(UserService_update_password_resume(tbl, nid, future, env, t),
             200, 400)

----------------------------------------------------------------------------
(* The inputs of the requests. *)

\* Clock readings at which something happens: the whole minutes and the
\* second after each.
Instants == {t \in 0..MaxTime : t % SecondsPerMinute \in {0, 1}}
Durations == 1..MaxDuration
UserIds == 1..MaxId

ua == <<"a">>
ub == <<"b">>
ea == <<"a", "@", "x">>
eb == <<"b", "@", "x">>
bad_email == <<"a", "x">>
Passw0rd == <<"P", "a", "s", "s", "w", "0", "r", "d", "!">>
Secret1 == <<"S", "e", "c", "r", "e", "t", "1", "?">>
Other1 == <<"O", "t", "h", "e", "r", "1", "!", "x">>
weak == <<"a", "b", "c">>
fone10 == <<"1", "2", "3", "4", "5", "6", "7", "8", "9", "0">>
fone3 == <<"1", "2", "3">>
fone_new == <<"(", "9", "8", ")", "7", "6", "5", "4", "3", "2", "1", "0">>
blank == <<" ">>

NoFault == [fail |-> 0, salt |-> "s1", hash_fails |-> FALSE, sign_fails |-> FALSE]
StoreFault(k) == [NoFault EXCEPT !.fail = k]
HashFault == [NoFault EXCEPT !.hash_fails = TRUE]
SignFault == [NoFault EXCEPT !.sign_fails = TRUE]

SignupBodies ==
    [username : {Some(ua), Some(ub), None},
     email : {Some(ea), Some(eb), Some(bad_email)},
     password : {Some(Passw0rd), Some(weak)},
     fone : {Some(fone10), Some(fone3)},
     name : {Some(<<"A">>)},
     surname : {Some(<<"B">>)}]
ValidSignupBodies ==
    {b \in SignupBodies :
        /\ b.username # None /\ b.email # Some(bad_email)
        /\ b.password = Some(Passw0rd) /\ b.fone = Some(fone10)}
\* Faults are injected into the requests that pass every check.
SignupInputs ==
    (SignupBodies \X {NoFault})
    \cup (ValidSignupBodies
          \X {StoreFault(1), StoreFault(2), StoreFault(3), HashFault})

LoginBodies ==
    [username : {Some(ua), Some(ub), Some(blank)},
     password : {Some(Passw0rd), Some(Secret1), None}]
ValidLoginBodies ==
    {b \in LoginBodies : b.username # Some(blank) /\ b.password # None}
LoginInputs ==
    (LoginBodies \X {NoFault})
    \cup (ValidLoginBodies \X {StoreFault(1), SignFault})

\* What a client can put in the Authorization header at clock reading t.
ForgedToken(t) == generate_token(1, i64_from(1), "wrong_secret", t)
BadHeaders(t) ==
    {NoHeader, BasicHeader, Bearer(GarbageToken),
     Bearer(UntypedToken(ServerKey)), Bearer(ForgedToken(t))}
HeldHeaders == IF IsSome(session) THEN {Bearer(Unwrap(session))} ELSE {}

NoBody == {None}
UpdateBodies ==
    {[name |-> Some(<<"Z">>), surname |-> None, fone |-> None],
     [name |-> Some(<<"Z">>), surname |-> None, fone |-> Some(fone3)]}
PasswordBodies ==
    [current_password : {Some(Passw0rd), Some(Secret1), None},
     new_password : {Some(Secret1), Some(weak)}]
ChangeBodies ==
    [current_password : {Some(Passw0rd), Some(Secret1)},
     new_password : {Some(Secret1), Some(Passw0rd)}]

\* Every combination of present and absent fields of an update, the phone
\* valid or not.
ProfileBodies ==
    [name : {None, Some(<<"Z">>)},
     surname : {None, Some(<<"Y">>)},
     fone : {None, Some(fone_new), Some(fone3)}]

\* Change-password bodies with a field absent or blank, a wrong current
\* password, a weak new password, and the combinations of these.
PasswordRequestBodies ==
    PasswordBodies
    \cup {[current_password |-> Some(Passw0rd), new_password |-> None],
          [current_password |-> Some(blank), new_password |-> Some(Secret1)]}

\* A token of the server for a user id that does not fit the store's 32-bit
\* id column (Claims.user_id is an i64).
OutOfRangeHeader ==
    Bearer(generate_token(session_duration_minutes, i64_beyond_i32, ServerKey,
                          now))

\* Values of the test struct: every field absent or present, the name also
\* empty and blank, the age also zero; the lists of required fields, one of
\* them naming a field the struct does not have.
TestDataValues ==
    [name : {None, Some(<<"J">>), Some(<<>>), Some(blank)},
     email : {None, Some(ea)},
     age : {None, Some(0), Some(25)},
     active : {None, Some(TRUE)}]
RequiredLists ==
    {<<>>, <<"name", "email">>, <<"email", "name">>,
     <<"name", "email", "age">>, <<"age", "active">>, <<"nickname", "name">>}

\* The clients that may each have one request suspended in the server, and
\* the slot of a client that has none.
Clients == {"c1", "c2"}
Idle == [op |-> "idle"]

\* Passwords of seven characters and more: four characters of one class,
\* then each sequence over a letter of either case, a digit, a symbol, a
\* space, a '#' and a digit outside ASCII.
PolicyAlphabet == {"a", "A", "1", "!", " ", "#", "u0663"}
PolicyPrefixes ==
    {<<"p", "p", "p", "p">>, <<"P", "P", "P", "P">>,
     <<"1", "1", "1", "1">>, <<"!", "!", "!", "!">>}
PolicyPasswords ==
    {prefix \o tail : prefix \in PolicyPrefixes,
                      tail \in UNION {[1..n -> PolicyAlphabet] : n \in 3..MaxTail}}

\* Phones: eight digits, then each sequence over a digit, a letter and a
\* digit outside ASCII, for 8 to 16 digits among up to 16 characters.
FoneAlphabet == {"1", "a", "u0663"}
FonePrefix == <<"1", "2", "3", "4", "5", "6", "7", "8">>
Fones ==
    {FonePrefix \o tail :
        tail \in UNION {[1..n -> FoneAlphabet] : n \in 0..MaxFoneTail}}

\* The salts SaltString::generate may draw from OsRng, and the passwords
\* that are hashed and offered for verification.
Salts == {"s1", "s2", "s3"}
HashedPasswords == {Passw0rd, Secret1, weak, <<>>}

\* What the password column may hold after the row was altered outside the
\* program: the empty string, a string that is no hash, the password as
\* typed.
MalformedHashes ==
    {PlainString(<<>>), PlainString(<<"x">>), PlainString(Passw0rd)}

\* A protected request: any body with the held token, one with a bad header.
ProtectedInputs(bodies, faults, bad_headers) ==
    (HeldHeaders \X bodies \X ({NoFault} \cup faults))
    \cup (bad_headers \X {CHOOSE b \in bodies : TRUE} \X {NoFault})

----------------------------------------------------------------------------
(* The state machine: one action per request, handled to completion. *)

NoRequest == [op |-> "none", at |-> 0]
NoResponse ==
    [status |-> 0, ok |-> FALSE, message |-> Msg(""), invoked |-> FALSE,
     calls |-> <<>>]

\* What the client receives, from the outcome r of a route.
Response(r) ==
    [status |-> r.status, ok |-> r.ok, message |-> r.message,
     invoked |-> r.invoked, calls |-> r.calls]
    @@ (IF "id" \in DOMAIN r THEN [id |-> r.id] ELSE <<>>)
    @@ (IF "token" \in DOMAIN r THEN [token |-> r.token] ELSE <<>>)
    @@ (IF "user" \in DOMAIN r THEN [user |-> r.user] ELSE <<>>)

EmptyTable == [i \in {} |-> 0]

Init ==
    /\ users = EmptyTable
    /\ next_id = 1
    /\ now = 0
    /\ session_duration_minutes = 1
    /\ session = None
    /\ in_flight = [c \in Clients |-> Idle]
    /\ req = NoRequest
    /\ resp = NoResponse

\* POST /user/signup
CreateUser(body, env) ==
    /\ LET r == create_user_route(users, next_id, body, env, now)
       IN  /\ r.nid <= MaxId + 1
           /\ users' = r.tbl
           /\ next_id' = r.nid
           /\ resp' = Response(r)
    /\ req' = [op |-> "signup", at |-> now, body |-> body, env |-> env]
    /\ UNCHANGED <<in_flight, now, session_duration_minutes, session>>

\* POST /user/login; the client keeps the token it is given.
LoginUser(body, env) ==
    /\ LET r == login_user_route(users, next_id, body,
                                 session_duration_minutes, env, now)
       IN  /\ users' = r.tbl
           /\ next_id' = r.nid
           /\ resp' = Response(r)
           /\ session' = IF r.ok THEN Some(r.token) ELSE session
    /\ req' = [op |-> "login", at |-> now, body |-> body, env |-> env]
    /\ UNCHANGED <<in_flight, now, session_duration_minutes>>

\* GET /user
FetchUser(header, env) ==
    /\ LET r == fetch_user_route(users, next_id, header, env, now)
       IN  /\ users' = r.tbl
           /\ next_id' = r.nid
           /\ resp' = Response(r)
    /\ req' = [op |-> "fetch", at |-> now, header |-> header, env |-> env]
    /\ UNCHANGED <<in_flight, now, session_duration_minutes, session>>

\* PUT /user
UpdateUser(header, body, env) ==
    /\ LET r == update_user_route(users, next_id, header, body, env, now)
       IN  /\ users' = r.tbl
           /\ next_id' = r.nid
           /\ resp' = Response(r)
    /\ req' = [op |-> "update", at |-> now, header |-> header,
               body |-> body, env |-> env]
    /\ UNCHANGED <<in_flight, now, session_duration_minutes, session>>

\* POST /user/password
UpdatePassword(header, body, env) ==
    /\ LET r == update_password_route(users, next_id, header, body, env, now)
       IN  /\ users' = r.tbl
           /\ next_id' = r.nid
           /\ resp' = Response(r)
    /\ req' = [op |-> "password", at |-> now, header |-> header,
               body |-> body, env |-> env]
    /\ UNCHANGED <<in_flight, now, session_duration_minutes, session>>

\* DELETE /user
DeleteUser(header, env) ==
    /\ LET r == delete_user_route(users, next_id, header, env, now)
       IN  /\ users' = r.tbl
           /\ next_id' = r.nid
           /\ resp' = Response(r)
    /\ req' = [op |-> "delete", at |-> now, header |-> header, env |-> env]
    /\ UNCHANGED <<in_flight, now, session_duration_minutes, session>>

\* PUT /user and POST /user/password, served a step at a time.  Begin takes
\* the request and runs the handler to its first .await, or to its response
\* when it returns before; Resume runs the suspended handler of a client to
\* its next .await, or to its response.
Begin(c, op, header, body, s) ==
    /\ in_flight[c] = Idle
    /\ IF s.done
       THEN /\ resp' = Response(s.r)
            /\ req' = [op |-> op, at |-> now, header |-> header,
                       body |-> body, env |-> NoFault]
            /\ UNCHANGED in_flight
       ELSE /\ in_flight' = [in_flight EXCEPT ![c] =
                                [op |-> op, at |-> now, header |-> header,
                                 body |-> body, future |-> s.future]]
            /\ UNCHANGED <<req, resp>>
    /\ UNCHANGED <<users, next_id, now, session_duration_minutes, session>>

Resume(c, env, s) ==
    /\ IF s.done
       THEN /\ users' = s.r.tbl
            /\ next_id' = s.r.nid
            /\ resp' = Response(s.r)
            /\ req' = [op |-> in_flight[c].op, at |-> in_flight[c].at,
                       header |-> in_flight[c].header,
                       body |-> in_flight[c].body, env |-> env]
            /\ in_flight' = [in_flight EXCEPT ![c] = Idle]
       ELSE /\ in_flight' = [in_flight EXCEPT ![c].future = s.future]
            /\ UNCHANGED <<users, next_id, req, resp>>
    /\ UNCHANGED <<now, session_duration_minutes, session>>

\* POST /user/signup, served a step at a time.
BeginCreateUser(c, body) ==
    /\ in_flight[c] = Idle
    /\ LET s == create_user_route_start(users, next_id, body, now)
       IN  IF s.done
           THEN /\ resp' = Response(s.r)
                /\ req' = [op |-> "signup", at |-> now, body |-> body,
                           env |-> NoFault]
                /\ UNCHANGED in_flight
           ELSE /\ in_flight' = [in_flight EXCEPT ![c] =
                                    [op |-> "signup", at |-> now,
                                     body |-> body, future |-> s.future]]
                /\ UNCHANGED <<req, resp>>
    /\ UNCHANGED <<users, next_id, now, session_duration_minutes, session>>

ResumeCreateUser(c, env) ==
    /\ in_flight[c].op = "signup"
    /\ LET s == create_user_route_resume(users, next_id, in_flight[c].future,
                                         env, now)
       IN  IF s.done
           THEN /\ s.r.nid <= MaxId + 1
                /\ users' = s.r.tbl
                /\ next_id' = s.r.nid
                /\ resp' = Response(s.r)
                /\ req' = [op |-> "signup", at |-> in_flight[c].at,
                           body |-> in_flight[c].body, env |-> env]
                /\ in_flight' = [in_flight EXCEPT ![c] = Idle]
           ELSE /\ in_flight' = [in_flight EXCEPT ![c].future = s.future]
                /\ UNCHANGED <<users, next_id, req, resp>>
    /\ UNCHANGED <<now, session_duration_minutes, session>>

BeginUpdateUser(c, header, body) ==
    Begin(c, "update", header, body,
          update_user_route_start(users, next_id, header, body, now))

ResumeUpdateUser(c, env) ==
    /\ in_flight[c].op = "update"
    /\ Resume(c, env, update_user_route_resume(users, next_id,
                          in_flight[c].future, env, now))

BeginUpdatePassword(c, header, body) ==
    Begin(c, "password", header, body,
          update_password_route_start(users, next_id, header, body, now))

ResumeUpdatePassword(c, env) ==
    /\ in_flight[c].op = "password"
    /\ Resume(c, env, update_password_route_resume(users, next_id,
                          in_flight[c].future, env, now))

\* The password column of a row is altered outside the program.
CorruptStoredHash(id, stored) ==
    /\ id \in DOMAIN users
    /\ users' = [users EXCEPT ![id].password = stored]
    /\ req' = [op |-> "none", at |-> now]
    /\ resp' = NoResponse
    /\ UNCHANGED <<in_flight, next_id, now, session_duration_minutes, session>>

\* Time passes, up to clock reading t.
Tick(t) ==
    /\ t > now
    /\ now' = t
    /\ UNCHANGED <<in_flight, users, next_id, session_duration_minutes, session,
                   req, resp>>

\* The credential lifecycle: every request kind with well-formed bodies and
\* the token of the last login, at one clock reading.
Next ==
    \/ \E b \in ValidSignupBodies : CreateUser(b, NoFault)
    \/ \E b \in ValidLoginBodies : LoginUser(b, NoFault)
    \/ \E i \in ProtectedInputs(NoBody, {}, {}) : FetchUser(i[1], i[3])
    \/ \E i \in ProtectedInputs(UpdateBodies, {}, {}) :
          UpdateUser(i[1], i[2], i[3])
    \/ \E i \in ProtectedInputs(ChangeBodies, {}, {}) :
          UpdatePassword(i[1], i[2], i[3])
    \/ \E i \in ProtectedInputs(NoBody, {}, {}) : DeleteUser(i[1], i[3])

Spec == Init /\ [][Next]_vars

\* Signup under every body and fault.
NextSignup == \E i \in SignupInputs : CreateUser(i[1], i[2])

SpecSignup == Init /\ [][NextSignup]_vars

\* Login under every body and fault, against stores that signup and
\* change-password have written.
NextLogin ==
    \/ \E b \in ValidSignupBodies : CreateUser(b, NoFault)
    \/ \E i \in LoginInputs : LoginUser(i[1], i[2])
    \/ \E i \in ProtectedInputs(ChangeBodies, {}, {}) :
          UpdatePassword(i[1], i[2], i[3])

SpecLogin == Init /\ [][NextLogin]_vars

\* The protected routes under every header, for two users who sign up, log
\* in, and let their tokens expire.
NextProtected ==
    \/ \E b \in {b \in ValidSignupBodies :
                    b.username = Some(ua) <=> b.email = Some(ea)} :
          CreateUser(b, NoFault)
    \/ \E b \in {b \in ValidLoginBodies : b.password = Some(Passw0rd)} :
          LoginUser(b, NoFault)
    \/ \E i \in ProtectedInputs(NoBody, {}, BadHeaders(now)) :
          FetchUser(i[1], i[3])
    \/ \E i \in ProtectedInputs(UpdateBodies, {}, BadHeaders(now)) :
          UpdateUser(i[1], i[2], i[3])
    \/ \E i \in ProtectedInputs({b \in ChangeBodies :
                                    b.new_password = Some(Secret1)},
                                {}, BadHeaders(now)) :
          UpdatePassword(i[1], i[2], i[3])
    \/ \E i \in ProtectedInputs(NoBody, {}, BadHeaders(now)) :
          DeleteUser(i[1], i[3])
    \/ Tick(MaxTime)

SpecProtected == Init /\ [][NextProtected]_vars

\* The profile of one user under every update, the store failing or not.
NextProfile ==
    \/ \E b \in {b \in ValidSignupBodies :
                    b.username = Some(ua) /\ b.email = Some(ea)} :
          CreateUser(b, NoFault)
    \/ \E b \in {b \in ValidLoginBodies :
                    b.username = Some(ua) /\ b.password = Some(Passw0rd)} :
          LoginUser(b, NoFault)
    \/ \E i \in ProtectedInputs(ProfileBodies, {StoreFault(1)}, {}) :
          UpdateUser(i[1], i[2], i[3])
    \/ \E i \in ProtectedInputs(NoBody, {}, {}) : FetchUser(i[1], i[3])

SpecProfile == Init /\ [][NextProfile]_vars

\* Change-password under every body and fault, for a user who may have been
\* deleted since the token was issued.
NextPassword ==
    \/ \E b \in {b \in ValidSignupBodies :
                    b.username = Some(ua) /\ b.email = Some(ea)} :
          CreateUser(b, NoFault)
    \/ \E b \in {b \in ValidLoginBodies : b.username = Some(ua)} :
          LoginUser(b, NoFault)
    \/ \E i \in ProtectedInputs(PasswordRequestBodies,
                                {StoreFault(1), StoreFault(2), StoreFault(3),
                                 StoreFault(4), HashFault}, {}) :
          UpdatePassword(i[1], i[2], i[3])
    \/ \E i \in ProtectedInputs(NoBody, {}, {}) : DeleteUser(i[1], i[3])

SpecPassword == Init /\ [][NextPassword]_vars

\* Fetch for users who are stored, users who have been deleted and an id
\* outside the id column's range, the store failing or not.
NextFetch ==
    \/ \E b \in {b \in ValidSignupBodies :
                    b.username = Some(ua) <=> b.email = Some(ea)} :
          CreateUser(b, NoFault)
    \/ \E b \in {b \in ValidLoginBodies : b.password = Some(Passw0rd)} :
          LoginUser(b, NoFault)
    \/ \E i \in ProtectedInputs(NoBody, {StoreFault(1)}, {OutOfRangeHeader}) :
          FetchUser(i[1], i[3])
    \/ \E i \in ProtectedInputs(NoBody, {}, {}) : DeleteUser(i[1], i[3])

SpecFetch == Init /\ [][NextFetch]_vars

\* One account that is created, deleted and created again while profile
\* updates and password changes of two clients are suspended in the server.
\* Signup, login, fetch and delete are served in one step: what they read
\* and write between their own store calls is not what is followed here.
NextInterleaved ==
    \/ \E b \in {b \in ValidSignupBodies :
                    b.username = Some(ua) /\ b.email = Some(ea)} :
          CreateUser(b, NoFault)
    \/ \E b \in {b \in ValidLoginBodies : b.username = Some(ua)} :
          LoginUser(b, NoFault)
    \/ \E i \in ProtectedInputs(NoBody, {}, {}) : FetchUser(i[1], i[3])
    \/ \E i \in ProtectedInputs(NoBody, {}, {}) : DeleteUser(i[1], i[3])
    \/ \E c \in Clients, h \in HeldHeaders :
          BeginUpdateUser(c, h, [name |-> Some(<<"Z">>), surname |-> None,
                                 fone |-> Some(fone_new)])
    \/ \E c \in Clients : ResumeUpdateUser(c, NoFault)
    \/ \E c \in Clients, h \in HeldHeaders :
          BeginUpdatePassword(c, h, [current_password |-> Some(Passw0rd),
                                     new_password |-> Some(Secret1)])
    \/ \E c \in Clients : ResumeUpdatePassword(c, NoFault)

SpecInterleaved == Init /\ [][NextInterleaved]_vars

\* Signups of two clients that ask for the same username, the same email or
\* both, each suspended at its store calls while the other runs, and the
\* deletion of an account by its owner.
ConcurrentSignupBodies ==
    {b \in ValidSignupBodies : b.username = Some(ua) \/ b.email = Some(ea)}

NextConcurrentSignup ==
    \/ \E c \in Clients, b \in ConcurrentSignupBodies : BeginCreateUser(c, b)
    \/ \E c \in Clients : ResumeCreateUser(c, NoFault)
    \/ \E b \in {b \in ValidLoginBodies : b.password = Some(Passw0rd)} :
          LoginUser(b, NoFault)
    \/ \E i \in ProtectedInputs(NoBody, {}, {}) : DeleteUser(i[1], i[3])

SpecConcurrentSignup == Init /\ [][NextConcurrentSignup]_vars

\* Change-password requests of two clients for one user, each presenting
\* the password the user signed up with and asking for a password of its
\* own, suspended at their store calls while the other runs.
ConcurrentPasswordBodies ==
    [current_password : {Some(Passw0rd)},
     new_password : {Some(Secret1), Some(Other1)}]

NextConcurrentPassword ==
    \/ \E b \in {b \in ValidSignupBodies :
                    b.username = Some(ua) /\ b.email = Some(ea)} :
          CreateUser(b, NoFault)
    \/ \E b \in {b \in ValidLoginBodies : b.username = Some(ua)} :
          LoginUser(b, NoFault)
    \/ \E c \in Clients, h \in HeldHeaders, b \in ConcurrentPasswordBodies :
          BeginUpdatePassword(c, h, b)
    \/ \E c \in Clients : ResumeUpdatePassword(c, NoFault)

SpecConcurrentPassword == Init /\ [][NextConcurrentPassword]_vars

\* Login and change-password for two users whose stored hashes may have
\* been corrupted.
NextCorrupt ==
    \/ \E b \in {b \in ValidSignupBodies :
                    b.username = Some(ua) <=> b.email = Some(ea)} :
          CreateUser(b, NoFault)
    \/ \E b \in ValidLoginBodies : LoginUser(b, NoFault)
    \/ \E i \in ProtectedInputs(ChangeBodies, {}, {}) :
          UpdatePassword(i[1], i[2], i[3])
    \/ \E id \in UserIds, stored \in MalformedHashes :
          CorruptStoredHash(id, stored)

SpecCorrupt == Init /\ [][NextCorrupt]_vars

\* Every operation with well-formed input, each of its store calls failing
\* in turn, and the hasher failing.
NextFaults ==
    \/ \E b \in {b \in ValidSignupBodies :
                    b.username = Some(ua) <=> b.email = Some(ea)},
          env \in {NoFault, StoreFault(1), StoreFault(2), StoreFault(3),
                   HashFault} :
          CreateUser(b, env)
    \/ \E b \in {b \in ValidLoginBodies : b.password = Some(Passw0rd)},
          env \in {NoFault, StoreFault(1)} :
          LoginUser(b, env)
    \/ \E i \in ProtectedInputs(NoBody, {StoreFault(1)}, {}) :
          FetchUser(i[1], i[3])
    \/ \E i \in ProtectedInputs(UpdateBodies, {StoreFault(1)}, {}) :
          UpdateUser(i[1], i[2], i[3])
    \/ \E i \in ProtectedInputs({b \in ChangeBodies :
                                    b.new_password = Some(Secret1)},
                                {StoreFault(1), StoreFault(2), StoreFault(3),
                                 StoreFault(4), HashFault}, {}) :
          UpdatePassword(i[1], i[2], i[3])
    \/ \E i \in ProtectedInputs(NoBody, {StoreFault(1)}, {}) :
          DeleteUser(i[1], i[3])

SpecFaults == Init /\ [][NextFaults]_vars

----------------------------------------------------------------------------
(* The token functions on their own, driven as the tests of src/auth.rs
   drive them: issue under a key, decode under a key, extract from a
   header; the clock advances and the process restarts under another
   SESSION_DURATION_MINUTES. *)

IssueToken(user_id, key) ==
    /\ LET token == generate_token(session_duration_minutes, i64_from(user_id),
                                   key, now)
       IN  /\ session' = Some(token)
           /\ resp' = [ok |-> TRUE, token |-> token]
    /\ req' = [op |-> "generate_token", at |-> now, user_id |-> user_id,
               key |-> key, session_duration |-> session_duration_minutes]
    /\ UNCHANGED <<in_flight, users, next_id, now, session_duration_minutes>>

DecodeToken(key) ==
    /\ IsSome(session)
    /\ resp' = decode(Unwrap(session), key, now)
                  @@ [claims |-> Unwrap(session).claims]
    /\ req' = [op |-> "decode", at |-> now, token |-> Unwrap(session),
               key |-> key, session_duration |-> session_duration_minutes]
    /\ UNCHANGED <<in_flight, users, next_id, now, session_duration_minutes, session>>

ExtractClaims(header) ==
    /\ resp' = from_request_parts(header, now)
    /\ req' = [op |-> "extract", at |-> now, header |-> header,
               session_duration |-> session_duration_minutes]
    /\ UNCHANGED <<in_flight, users, next_id, now, session_duration_minutes, session>>

\* main() run again: SESSION_DURATION_MINUTES is read at startup only.
Restart(duration) ==
    /\ duration # session_duration_minutes
    /\ session_duration_minutes' = duration
    /\ UNCHANGED <<in_flight, users, next_id, now, session, req, resp>>

InitAuth ==
    /\ users = EmptyTable
    /\ next_id = 1
    /\ now = 0
    /\ session_duration_minutes \in Durations
    /\ session = None
    /\ in_flight = [c \in Clients |-> Idle]
    /\ req = NoRequest
    /\ resp = NoResponse

NextAuth ==
    \/ \E u \in UserIds, k \in Keys : IssueToken(u, k)
    \/ \E k \in Keys : DecodeToken(k)
    \/ \E h \in HeldHeaders \cup BadHeaders(now) : ExtractClaims(h)
    \/ \E d \in Durations : Restart(d)
    \/ \E t \in Instants : Tick(t)

SpecAuth == InitAuth /\ [][NextAuth]_vars

----------------------------------------------------------------------------
(* validate_required_fields on its own, called as the tests of
   src/utils/required_fields.rs call it. *)

ValidateRequiredFields(data, source, required_fields, target) ==
    /\ resp' = validate_required_fields(data, source, required_fields, target)
    /\ req' = [op |-> "validate_required_fields", at |-> now, data |-> data,
               source |-> source, required_fields |-> required_fields,
               target |-> target]
    /\ UNCHANGED <<in_flight, users, next_id, now, session_duration_minutes, session>>

NextRequired ==
    \E data \in TestDataValues, required_fields \in RequiredLists :
        ValidateRequiredFields(data, TestData, required_fields,
                               ValidatedTestData)

SpecRequired == Init /\ [][NextRequired]_vars

----------------------------------------------------------------------------
(* validate_password on its own: a password is given, then judged. *)

InitPolicy ==
    /\ users = EmptyTable
    /\ next_id = 1
    /\ now = 0
    /\ session_duration_minutes = 1
    /\ session = None
    /\ in_flight = [c \in Clients |-> Idle]
    /\ req \in {[op |-> "call", at |-> 0, password |-> p] :
                   p \in PolicyPasswords}
    /\ resp = NoResponse

ValidatePassword ==
    /\ req.op = "call"
    /\ req' = [req EXCEPT !.op = "validate_password"]
    /\ resp' = [ok |-> validate_password(req.password)]
    /\ UNCHANGED <<in_flight, users, next_id, now, session_duration_minutes,
                   session>>

NextPolicy == ValidatePassword

SpecPolicy == InitPolicy /\ [][NextPolicy]_vars

----------------------------------------------------------------------------
(* validate_fone on its own: a phone is given, then judged. *)

InitFone ==
    /\ users = EmptyTable
    /\ next_id = 1
    /\ now = 0
    /\ session_duration_minutes = 1
    /\ session = None
    /\ in_flight = [c \in Clients |-> Idle]
    /\ req \in {[op |-> "call", at |-> 0, fone |-> f] : f \in Fones}
    /\ resp = NoResponse

ValidateFone ==
    /\ req.op = "call"
    /\ req' = [req EXCEPT !.op = "validate_fone"]
    /\ resp' = [ok |-> validate_fone(req.fone)]
    /\ UNCHANGED <<in_flight, users, next_id, now, session_duration_minutes,
                   session>>

NextFone == ValidateFone

SpecFone == InitFone /\ [][NextFone]_vars

----------------------------------------------------------------------------
(* hash_password and password_validation on their own, as the tests of
   src/utils/password.rs call them: one password is hashed a number of
   times, and the hashes are verified against candidates.  OsRng is an ideal
   generator: a salt it draws has not been drawn before. *)

InitHash ==
    /\ users = EmptyTable
    /\ next_id = 1
    /\ now = 0
    /\ session_duration_minutes = 1
    /\ session = None
    /\ in_flight = [c \in Clients |-> Idle]
    /\ req \in {[op |-> "call", at |-> 0, password |-> p, salts |-> <<>>,
                 results |-> <<>>] : p \in HashedPasswords}
    /\ resp = NoResponse

HashPassword(salt, lib_fails) ==
    /\ Len(req.results) < MaxHashes
    /\ \A k \in 1..Len(req.salts) : req.salts[k] # salt
    /\ req' = [req EXCEPT
                 !.op = "hash_password",
                 !.salts = Append(@, salt),
                 !.results = Append(@, hash_password(req.password, salt,
                                                     lib_fails))]
    /\ resp' = NoResponse
    /\ UNCHANGED <<in_flight, users, next_id, now, session_duration_minutes,
                   session>>

PasswordValidation(k, password_input) ==
    /\ k \in 1..Len(req.results)
    /\ req.results[k].ok
    /\ req' = [req EXCEPT !.op = "password_validation"]
    /\ resp' = [ok |-> password_validation(Unwrap(req.results[k].hash),
                                           password_input),
                stored |-> k, password_input |-> password_input]
    /\ UNCHANGED <<in_flight, users, next_id, now, session_duration_minutes,
                   session>>

NextHash ==
    \/ \E salt \in Salts, lib_fails \in BOOLEAN : HashPassword(salt, lib_fails)
    \/ \E k \in 1..MaxHashes, password_input \in HashedPasswords :
          PasswordValidation(k, password_input)

SpecHash == InitHash /\ [][NextHash]_vars

----------------------------------------------------------------------------
(* Properties. *)

Protected == {"fetch", "update", "password", "delete"}

\* The user a token names, as an id of the users table.
UserOf(token) == i32_try_from(token.claims.user_id)

\* The token of a header is one generate_token made under the server's key.
ServerSigned(token) ==
    token.jwt /\ token.typed /\ token.sig = HS256(ServerKey, token.claims)

(* C1 *)
\* No two rows of the users table share a username, and no two share an
\* email, in any state that signup, update-profile, change-password and
\* delete requests, each run to completion, can reach.
C1_UniqueUsernameAndEmail ==
    \A i, j \in DOMAIN users :
        i # j => /\ users[i].username # users[j].username
                 /\ users[i].email # users[j].email

\* Two users are stored and a signup that repeats the username of one of
\* them has just been refused.
C1_Witness ==
    /\ Cardinality(DOMAIN users) = 2
    /\ req.op = "signup"
    /\ resp.message = Msg("Username already exists")

C4_IssueThenVerify ==
    /\ req.op = "generate_token" =>
          /\ decode(resp.token, req.key, req.at).ok
          /\ UserOf(resp.token) = req.user_id
    /\ (/\ req.op = "decode"
        /\ req.token.sig = HS256(req.key, req.token.claims)
        /\ req.at = req.token.claims.iat)
       => (resp.ok /\ resp.claims.user_id = req.token.claims.user_id)

\* A token issued for user 2 has been decoded, in the second it was issued,
\* under the key that signed it.
C4_Witness ==
    /\ req.op = "decode"
    /\ req.token.sig = HS256(req.key, req.token.claims)
    /\ req.at = req.token.claims.iat
    /\ resp.ok
    /\ i32_try_from(resp.claims.user_id) = 2

(* C5 *)
\* A token signed under one key is refused under every other key, whatever
\* its issue time and user id: decode fails, and the extractor, which holds
\* the server's key, answers 401.
C5_WrongKeyRejected ==
    /\ (req.op = "decode" /\ req.token.sig.key # req.key) => ~resp.ok
    /\ (/\ req.op = "extract"
        /\ req.header.kind = "bearer"
        /\ req.header.token.sig.key # ServerKey)
       => (~resp.ok /\ resp.status = 401)

\* A token the server issued, not expired, has been refused under another
\* key.
C5_Witness ==
    /\ req.op = "decode"
    /\ req.token.sig.key = ServerKey
    /\ req.key # ServerKey
    /\ req.token.claims.exp >= req.at
    /\ ~resp.ok

(* C6 *)
\* On the four protected routes the token is verified before the lifecycle
\* operation: when the Authorization header is absent or of another scheme,
\* or its token is not a token, is not signed with the server's key, does
\* not carry claims, or has expired for the verifier, the answer is 401, the
\* service method is not entered, no store call is issued and the store is
\* unchanged.

\* The reasons for which a header does not authenticate at clock reading t.
Unauthenticated(header, t) ==
    \/ header.kind # "bearer"
    \/ ~header.token.jwt
    \/ header.token.sig # HS256(ServerKey, header.token.claims)
    \/ ~header.token.typed
    \/ header.token.claims.exp + Leeway < t

HasRow(tbl, username) == \E i \in DOMAIN tbl : tbl[i].username = username
VerifiesFor(tbl, username, password) ==
    \E i \in DOMAIN tbl :
        /\ tbl[i].username = username
        /\ tbl[i].password.phc
        /\ tbl[i].password.digest = Argon2(tbl[i].password.salt, password)
FieldsPresent(body) ==
    \A f \in DOMAIN body : IsSome(body[f]) /\ ~trim_is_empty(Unwrap(body[f]))
UnknownUser(tbl, body) ==
    FieldsPresent(body) /\ ~HasRow(tbl, Unwrap(body.username))
WrongPassword(tbl, body) ==
    /\ FieldsPresent(body)
    /\ HasRow(tbl, Unwrap(body.username))
    /\ ~VerifiesFor(tbl, Unwrap(body.username), Unwrap(body.password))
LoginResponse(body) ==
    Response(login_user_route(users, next_id, body, session_duration_minutes,
                              NoFault, now))

C7_LoginDoesNotRevealExistence ==
    /\ (req.op = "login"
        /\ (UnknownUser(users, req.body) \/ WrongPassword(users, req.body)))
       => /\ resp.status = 401
          /\ resp.message = Msg("Username and Password invalid")
          /\ "token" \notin DOMAIN resp
    /\ \A b1, b2 \in LoginBodies :
          (UnknownUser(users, b1) /\ WrongPassword(users, b2))
          => LoginResponse(b1) = LoginResponse(b2)

\* A login with a username that has no row has been refused while another
\* username is stored and some password is wrong for it.
C7_Witness ==
    /\ req.op = "login"
    /\ req.env = NoFault
    /\ UnknownUser(users, req.body)
    /\ resp.status = 401
    /\ \E b \in LoginBodies : WrongPassword(users, b)

(* C8 *)
\* With non-empty username and password and neither the store nor the
\* signing failing, login succeeds if and only if a row has the username
\* and the password verifies against its stored hash; the token returned
\* then decodes under the server's key and carries the id of that row.
C8_LoginIffCredentialsMatch ==
    (req.op = "login" /\ FieldsPresent(req.body) /\ req.env = NoFault)
    => /\ resp.ok <=> VerifiesFor(users, Unwrap(req.body.username),
                                  Unwrap(req.body.password))
       /\ resp.ok =>
             /\ resp.status = 201
             /\ decode(resp.token, ServerKey, req.at).ok
             /\ UserOf(resp.token) \in DOMAIN users
             /\ users[UserOf(resp.token)].username
                   = Unwrap(req.body.username)

\* A login with the password a change-password stored has succeeded, for
\* the second user.
C8_Witness ==
    /\ req.op = "login"
    /\ req.env = NoFault
    /\ req.body.password = Some(Secret1)
    /\ resp.ok
    /\ UserOf(resp.token) = 2

(* C9 *)
\* A signup with all fields present, the lookups not failing, is refused
\* with exactly "Username already exists" when a stored user holds its
\* username, and with exactly "Email already exists" when its username is
\* free and a stored user holds its email; a signup that repeats the one
\* that has just succeeded is refused with "Username already exists".

UsernameTaken(tbl, body) == HasRow(tbl, Unwrap(body.username))
EmailTaken(tbl, body) == \E i \in DOMAIN tbl : tbl[i].email = Unwrap(body.email)

C9_DistinctConflictMessages ==
    [][(req'.op = "signup" /\ FieldsPresent(req'.body))
       => /\ (UsernameTaken(users, req'.body) /\ req'.env.fail # 1)
             => (resp'.status = 400
                 /\ resp'.message = Msg("Username already exists"))
          /\ (/\ ~UsernameTaken(users, req'.body)
              /\ EmailTaken(users, req'.body)
              /\ req'.env.fail \notin {1, 2})
             => (resp'.status = 400
                 /\ resp'.message = Msg("Email already exists"))
          /\ (/\ req.op = "signup" /\ resp.ok
              /\ req'.body = req.body /\ req'.env.fail # 1)
             => resp'.message = Msg("Username already exists")]_vars

\* A signup whose username is free and whose email a stored user holds has
\* been refused with "Email already exists".
C9_Witness ==
    /\ req.op = "signup"
    /\ FieldsPresent(req.body)
    /\ ~UsernameTaken(users, req.body)
    /\ EmailTaken(users, req.body)
    /\ resp.status = 400
    /\ resp.message = Msg("Email already exists")

(* C10 *)
\* Signup applies its checks in the order required fields, username taken,
\* email taken, email format, password policy, phone format and returns
\* the error of the first one that fails; the password is hashed and the
\* user created only when all six pass.

SignupFields == <<"username", "email", "password", "fone", "name", "surname">>
BlankField(body, f) == ~IsSome(body[f]) \/ trim_is_empty(Unwrap(body[f]))
FirstBlank(body) ==
    SignupFields[CHOOSE k \in 1..Len(SignupFields) :
                    /\ BlankField(body, SignupFields[k])
                    /\ \A m \in 1..(k - 1) : ~BlankField(body, SignupFields[m])]

\* The message the order of the claim gives for a signup against a table.
ExpectedSignupMessage(tbl, body) ==
    IF \E k \in 1..Len(SignupFields) : BlankField(body, SignupFields[k])
    THEN MsgOf("Missing required fields", FirstBlank(body))
    ELSE IF UsernameTaken(tbl, body) THEN Msg("Username already exists")
    ELSE IF EmailTaken(tbl, body) THEN Msg("Email already exists")
    ELSE IF ~EmailAddress_is_valid(Unwrap(body.email))
    THEN Msg("Email is not valid")
    ELSE IF ~validate_password(Unwrap(body.password))
    THEN Msg("Password is not valid")
    ELSE IF ~validate_fone(Unwrap(body.fone)) THEN Msg("Fone is not valid")
    ELSE Msg("User created")

C10_FirstFailingCheckWins ==
    [][(req'.op = "signup" /\ req'.env = NoFault)
       => /\ resp'.message = ExpectedSignupMessage(users, req'.body)
          /\ resp'.ok <=> resp'.message = Msg("User created")
          /\ resp'.ok <=> users' # users
          /\ ~resp'.ok => "create_user" \notin
                             {resp'.calls[k] : k \in 1..Len(resp'.calls)}
          /\ resp'.ok =>
                /\ DOMAIN users' = DOMAIN users \cup {resp'.id}
                /\ resp'.id \notin DOMAIN users
                /\ users'[resp'.id].password
                      = PhcString(req'.env.salt,
                            Argon2(req'.env.salt, Unwrap(req'.body.password)))]_vars

\* A signup with a taken username, an invalid email, a weak password and an
\* invalid phone has been refused for the username.
C10_Witness ==
    /\ req.op = "signup"
    /\ req.env = NoFault
    /\ FieldsPresent(req.body)
    /\ UsernameTaken(users, req.body)
    /\ req.body.email = Some(bad_email)
    /\ req.body.password = Some(weak)
    /\ req.body.fone = Some(fone3)
    /\ resp.message = Msg("Username already exists")


(* C11 *)
\* In every reachable state the password column of every row is a salted
\* hash, PHC string of the Argon2 digest of some password under the salt it
\* carries, and never the password of a request as it was typed; after a
\* successful signup and after a successful change-password the column
\* holds the hash of the submitted password under the salt drawn for it.

Passwords == {Passw0rd, Secret1, weak}
SaltedHashOf(stored, password) ==
    /\ stored.phc
    /\ stored.digest = Argon2(stored.salt, password)
    /\ stored # PlainString(password)

C11_PasswordColumnIsAHash ==
    /\ \A i \in DOMAIN users :
          /\ \E p \in Passwords : SaltedHashOf(users[i].password, p)
          /\ \A p \in Passwords : users[i].password # PlainString(p)
    /\ (req.op = "signup" /\ resp.ok)
       => (/\ resp.id \in DOMAIN users
           /\ SaltedHashOf(users[resp.id].password, Unwrap(req.body.password))
           /\ users[resp.id].password.salt = req.env.salt)
    /\ (req.op = "password" /\ resp.ok)
       => (/\ UserOf(req.header.token) \in DOMAIN users
           /\ SaltedHashOf(users[UserOf(req.header.token)].password,
                           Unwrap(req.body.new_password))
           /\ users[UserOf(req.header.token)].password.salt
                 = req.env.salt)

\* A change-password has succeeded and the row holds the hash of the new
\* password, which differs from the one the user signed up with.
C11_Witness ==
    /\ req.op = "password"
    /\ resp.ok
    /\ req.body.new_password = Some(Secret1)
    /\ req.body.current_password = Some(Passw0rd)
    /\ SaltedHashOf(users[UserOf(req.header.token)].password, Secret1)


(* C12 *)
\* As claimed: update-profile is a partial update.  After a successful
\* update of a stored user, each of name, surname and phone that is absent
\* from the request has the value it had before.

ProfileFields == {"name", "surname", "fone"}

C12_PartialUpdate ==
    [][(/\ req'.op = "update"
        /\ resp'.ok
        /\ UserOf(req'.header.token) \in DOMAIN users)
       => LET id == UserOf(req'.header.token)
          IN  /\ id \in DOMAIN users'
              /\ \A f \in ProfileFields :
                    req'.body[f] = None => users'[id][f] = users[id][f]]_vars

\* An update that carried a name only has succeeded, and the surname and
\* the phone the user signed up with are gone from the row.
C12_Witness ==
    /\ req.op = "update"
    /\ resp.ok
    /\ req.body = [name |-> Some(<<"Z">>), surname |-> None, fone |-> None]
    /\ UserOf(req.header.token) \in DOMAIN users
    /\ users[UserOf(req.header.token)].name = Some(<<"Z">>)
    /\ users[UserOf(req.header.token)].surname = None
    /\ users[UserOf(req.header.token)].fone = None

(* C13 *)
\* An authenticated update-profile whose phone is present and fails the
\* phone validator is answered 400 "Fone is not valid" without any store
\* call, and the table is unchanged: name, surname and phone of the user
\* keep their values, also when the request carries a name or a surname.

C13_InvalidFoneWritesNothing ==
    [][(/\ req'.op = "update"
        /\ ~Unauthenticated(req'.header, req'.at)
        /\ req'.body.fone # None
        /\ LET digits == CountIn(Unwrap(req'.body.fone), AsciiDigit)
           IN  digits < MinFoneDigits \/ digits > MaxFoneDigits)
       => /\ resp'.status = 400
          /\ resp'.message = Msg("Fone is not valid")
          /\ resp'.calls = <<>>
          /\ users' = users]_vars

\* An update with a name, a surname and an invalid phone has been refused
\* and the row still holds the name, surname and phone of the signup.
C13_Witness ==
    /\ req.op = "update"
    /\ req.body = [name |-> Some(<<"Z">>), surname |-> Some(<<"Y">>),
                   fone |-> Some(fone3)]
    /\ resp.message = Msg("Fone is not valid")
    /\ UserOf(req.header.token) \in DOMAIN users
    /\ users[UserOf(req.header.token)].name = Some(<<"A">>)
    /\ users[UserOf(req.header.token)].surname = Some(<<"B">>)
    /\ users[UserOf(req.header.token)].fone = Some(fone10)


(* C14 *)
\* Change-password writes the store only when both fields are present, the
\* user of the token has a row, current_password verifies against the hash
\* of that row and new_password passes the password policy.  A missing
\* field, an unknown user, a wrong current password and a weak new password
\* are each answered 400 (never 401) and leave the table unchanged, and a
\* wrong current password is reported also when the new password is weak.

VerifiesStored(stored, password) ==
    stored.phc /\ stored.digest = Argon2(stored.salt, password)
PassesPolicy(password) ==
    /\ str_len(password) >= MinPasswordLen
    /\ \A cls \in {Lowercase, Uppercase, UnicodeDigit, Special} :
          CountIn(password, cls) > 0
    /\ CountIn(password, Lowercase \cup Uppercase \cup UnicodeDigit \cup Special)
          = Len(password)

C14_ChangePasswordGuards ==
    [][(req'.op = "password" /\ ~Unauthenticated(req'.header, req'.at))
       => LET id == UserOf(req'.header.token)
              body == req'.body
              present == FieldsPresent(body)
              known == id \in DOMAIN users
              current_ok == VerifiesStored(users[id].password,
                                           Unwrap(body.current_password))
              new_ok == PassesPolicy(Unwrap(body.new_password))
              refused(text) ==
                  /\ resp'.status = 400
                  /\ users' = users
                  /\ req'.env = NoFault => resp'.message.text = text
          IN  /\ users' # users => (present /\ known /\ current_ok /\ new_ok)
              /\ ~resp'.ok => (users' = users /\ resp'.status = 400)
              /\ resp'.ok => (resp'.status = 200 /\ present /\ known
                              /\ current_ok /\ new_ok)
              /\ ~present => refused("Missing required fields")
              /\ (present /\ ~known) => refused("User not found")
              /\ (present /\ known /\ ~current_ok)
                 => refused("Current password is incorrect")
              /\ (present /\ known /\ current_ok /\ ~new_ok)
                 => refused("New password is not valid")]_vars

\* A change-password with a wrong current password and a weak new password
\* has been answered 400 for the current password, and the user's hash is
\* still the one of the signup.
C14_Witness ==
    /\ req.op = "password"
    /\ req.env = NoFault
    /\ req.body = [current_password |-> Some(Secret1),
                   new_password |-> Some(weak)]
    /\ resp.status = 400
    /\ resp.message = Msg("Current password is incorrect")
    /\ UserOf(req.header.token) \in DOMAIN users
    /\ VerifiesStored(users[UserOf(req.header.token)].password, Passw0rd)


(* C15 *)
\* When the request that follows a successful change-password of a user is
\* a login with that user's username, the store and the signing not
\* failing, the login succeeds if it carries the new password, and it is
\* refused with 401 if it carries the old password and the two differ.

C15_NewPasswordReplacesOld ==
    [][(/\ req.op = "password" /\ resp.ok
        /\ req'.op = "login" /\ req'.env = NoFault
        /\ UserOf(req.header.token) \in DOMAIN users
        /\ req'.body.username
              = Some(users[UserOf(req.header.token)].username))
       => /\ req'.body.password = req.body.new_password
             => (resp'.ok /\ resp'.status = 201
                 /\ resp'.token.claims.user_id
                       = req.header.token.claims.user_id)
          /\ (/\ req'.body.password = req.body.current_password
              /\ req.body.current_password # req.body.new_password)
             => (~resp'.ok /\ resp'.status = 401)]_vars

\* A login with the password of the signup has been refused for a user
\* whose password a change-password replaced by another one.
C15_Witness ==
    /\ req.op = "login"
    /\ req.env = NoFault
    /\ req.body.password = Some(Passw0rd)
    /\ resp.status = 401
    /\ \E i \in DOMAIN users :
          /\ Some(users[i].username) = req.body.username
          /\ VerifiesStored(users[i].password, Secret1)


(* C16 *)
\* As claimed: of two deletes of the same user id, the store not failing,
\* the first, which finds the row, succeeds and removes it, and a later
\* one, which finds that the row of its token's user has been removed, is
\* answered with an error and does not report success.  (A token names a
\* user that had a row when the token was issued, and only a delete
\* removes a row.)

C16_SecondDeleteIsAnError ==
    [][(/\ req'.op = "delete" /\ req'.env = NoFault
        /\ ~Unauthenticated(req'.header, req'.at))
       => LET id == UserOf(req'.header.token)
          IN  /\ id \in DOMAIN users
                 => (resp'.ok /\ resp'.status = 200 /\ id \notin DOMAIN users')
              /\ id \notin DOMAIN users
                 => (~resp'.ok /\ resp'.status >= 400)]_vars


(* C18 *)
\* No response of fetch contains the password hash.  The profile of a
\* successful fetch has the fields username, name, surname, email, fone
\* and active and no other (the timestamps, which the table of the model
\* does not keep, aside), the response has no field beside the profile,
\* and the whole response is the same when the password column of every
\* row is replaced by another value: nothing in it depends on the hash.

PublicFields == {"username", "name", "surname", "email", "fone", "active"}
Scrubbed(tbl) ==
    [i \in DOMAIN tbl |-> [tbl[i] EXCEPT !.password = PlainString(<<>>)]]
FetchResponse(tbl, header, env) ==
    Response(fetch_user_route(tbl, next_id, header, env, now))

C18_FetchOmitsPasswordHash ==
    /\ (req.op = "fetch" /\ resp.ok)
       => /\ resp.status = 200
          /\ DOMAIN resp.user = PublicFields
          /\ DOMAIN resp = {"status", "ok", "message", "invoked", "calls",
                            "user"}
          /\ resp.message = Msg("")
    /\ \A i \in DOMAIN users :
          DOMAIN FetchUserResponse(users[i]) = PublicFields
    /\ \A h \in HeldHeaders :
          FetchResponse(Scrubbed(users), h, NoFault)
             = FetchResponse(users, h, NoFault)

\* A fetch has returned the profile of a user whose stored hash a
\* change-password has replaced.
C18_Witness ==
    /\ req.op = "fetch"
    /\ resp.ok
    /\ \E i \in DOMAIN users :
          /\ users[i].username = resp.user.username
          /\ users[i].email = resp.user.email
          /\ VerifiesStored(users[i].password, Secret1)


(* C19 *)
\* Fetch does not tell why it failed.  An authenticated fetch for a user
\* that has no row, one during a failure of the store and one for an id
\* outside the 32-bit range of the id column are all answered with status
\* 500 and the message "User not found", without a profile, and the
\* responses of any two of them are identical.

FetchFails(tbl, header, env) ==
    /\ ~Unauthenticated(header, now)
    /\ \/ ~i32_try_from_ok(header.token.claims.user_id)
       \/ UserOf(header.token) \notin DOMAIN tbl
       \/ env.fail = 1
FetchInputs == (HeldHeaders \cup {OutOfRangeHeader}) \X {NoFault, StoreFault(1)}

C19_FetchErrorIsUniform ==
    /\ (req.op = "fetch" /\ req.at = now
        /\ FetchFails(users, req.header, req.env))
       => /\ resp.status = 500
          /\ resp.message = Msg("User not found")
          /\ ~resp.ok
          /\ "user" \notin DOMAIN resp
    /\ \A i1, i2 \in FetchInputs :
          (FetchFails(users, i1[1], i1[2]) /\ FetchFails(users, i2[1], i2[2]))
          => FetchResponse(users, i1[1], i1[2])
                = FetchResponse(users, i2[1], i2[2])

\* A fetch during a failure of the store, for a user who is stored, has
\* been answered "User not found".
C19_Witness ==
    /\ req.op = "fetch"
    /\ req.env = StoreFault(1)
    /\ UserOf(req.header.token) \in DOMAIN users
    /\ resp.status = 500
    /\ resp.message = Msg("User not found")


(* C20 *)
\* The fields of a serialized struct that validate_required_fields reports
\* when they are required, and the first of them in the order of a list.

Absent(data, f) == f \notin DOMAIN data \/ data[f] = None
BlankString(data, source, f) ==
    source[f] = "Option<String>" /\ trim_is_empty(Unwrap(data[f]))
ZeroNumber(data, source, f) ==
    source[f] = "Option<i32>" /\ Unwrap(data[f]) = 0
ClaimedMissing(data, source, f) ==
    \/ Absent(data, f)
    \/ BlankString(data, source, f)
    \/ ZeroNumber(data, source, f)
\* The validated object has, for each of its fields, the value of the input.
PassedThrough(value, data, target) ==
    /\ DOMAIN value = DOMAIN target
    /\ \A f \in DOMAIN target : Some(value[f]) = data[f]

\* The validated type can hold the input: none of its fields that is not
\* an Option is absent from the input.
Deserializable(data, target) ==
    \A f \in DOMAIN target : IsOption(target[f]) \/ ~Absent(data, f)

----------------------------------------------------------------------------
(* C17 *)
\* The ids whose row has been deleted: handed out by the sequence, and
\* without a row.
Deleted(tbl, nid) == {i \in 1..(nid - 1) : i \notin DOMAIN tbl}

\* Deletion is permanent: whatever request is served or resumed next, a
\* profile update or a password change for the same id that was suspended
\* when the row was deleted included, an id whose row has been deleted has
\* no row afterwards, and an authenticated fetch of it is answered with an
\* error.
C17_DeletionIsPermanent ==
    [][/\ \A i \in Deleted(users, next_id) : i \notin DOMAIN users'
       /\ (/\ req'.op = "fetch"
           /\ ~Unauthenticated(req'.header, req'.at)
           /\ UserOf(req'.header.token) \in Deleted(users, next_id))
          => (~resp'.ok /\ resp'.message = Msg("User not found"))]_vars

\* A password change that was suspended before its UPDATE when the row of
\* its user was deleted has run to its end, and the row is still gone.
C17_Witness ==
    /\ req.op = "password"
    /\ resp.ok
    /\ resp.calls = <<"fetch_user", "fetch_user", "get_user_for_login",
                      "update_password">>
    /\ UserOf(req.header.token) \in Deleted(users, next_id)

----------------------------------------------------------------------------
(* C21 *)
\* The policy in the words of the claim: characters are counted, a letter is
\* one of a-z or A-Z, a digit is one of 0-9.
ClaimedPolicy(p) ==
    /\ Len(p) >= MinPasswordLen
    /\ \E i \in 1..Len(p) : p[i] \in Lowercase
    /\ \E i \in 1..Len(p) : p[i] \in Uppercase
    /\ \E i \in 1..Len(p) : p[i] \in AsciiDigit
    /\ \E i \in 1..Len(p) : p[i] \in Special
    /\ \A i \in 1..Len(p) :
          p[i] \in Lowercase \cup Uppercase \cup AsciiDigit \cup Special

\* validate_password(p) is true exactly when p has at least 8 characters,
\* a lowercase letter, an uppercase letter, a digit and a symbol of
\* @$!%*?&, and no character outside letters, digits and these symbols.
C21_PasswordPolicy ==
    req.op = "validate_password" => (resp.ok <=> ClaimedPolicy(req.password))

\* A password without any of the digits 0-9 has been accepted.
C21_Witness ==
    /\ req.op = "validate_password"
    /\ resp.ok
    /\ \A i \in 1..Len(req.password) : req.password[i] \notin AsciiDigit

----------------------------------------------------------------------------
(* C22 *)
\* The positions of a string that hold one of the digits 0-9.
DigitPositions(s) == {i \in 1..Len(s) : s[i] \in AsciiDigit}

\* validate_fone(s) is true exactly when s has between 10 and 15 ASCII
\* digits, whatever its other characters are.
C22_FoneDigitCount ==
    req.op = "validate_fone"
    => (resp.ok <=> /\ Cardinality(DigitPositions(req.fone)) >= 10
                    /\ Cardinality(DigitPositions(req.fone)) <= 15)

\* A phone of 13 digits mixed with other characters has been accepted.
C22_Witness ==
    /\ req.op = "validate_fone"
    /\ Cardinality(DigitPositions(req.fone)) = 13
    /\ Len(req.fone) > 13
    /\ resp.ok

----------------------------------------------------------------------------
(* C23 *)
\* The calls of hash_password that returned a hash.
Hashed == {k \in 1..Len(req.results) : req.results[k].ok}

\* A hash of p verifies against p and against no other password, and two
\* calls of hash_password(p) return different hash strings, each of which
\* verifies against p.
C23_HashVerifyRoundTrip ==
    ("results" \in DOMAIN req)
    => /\ \A j \in Hashed : \A k \in Hashed :
             j # k => req.results[j].hash # req.results[k].hash
       /\ req.op = "password_validation"
          => (resp.ok <=> resp.password_input = req.password)

\* The password has been hashed twice and the second hash, which differs
\* from the first, has been verified against the password.
C23_Witness ==
    /\ req.op = "password_validation"
    /\ Hashed = {1, 2}
    /\ req.results[1].hash # req.results[2].hash
    /\ resp.stored = 2
    /\ resp.password_input = req.password
    /\ resp.ok

----------------------------------------------------------------------------
(* C24 *)
\* Some row of the table has the username and a password column that is not
\* a hash.
CorruptRow(tbl, username) ==
    \E i \in DOMAIN tbl : tbl[i].username = username /\ ~tbl[i].password.phc

\* A stored string that is malformed or empty verifies against no
\* candidate and raises nothing: a login for a user whose stored hash is
\* corrupt is answered as a wrong password is, a change-password as a wrong
\* current password is, and neither writes to the store.
C24_CorruptHashIsAWrongPassword ==
    [][/\ (/\ req'.op = "login"
           /\ FieldsPresent(req'.body)
           /\ CorruptRow(users, Unwrap(req'.body.username)))
          => /\ resp'.status = 401
             /\ resp'.message = Msg("Username and Password invalid")
             /\ users' = users
       /\ (/\ req'.op = "password"
           /\ ~Unauthenticated(req'.header, req'.at)
           /\ FieldsPresent(req'.body)
           /\ UserOf(req'.header.token) \in DOMAIN users
           /\ ~users[UserOf(req'.header.token)].password.phc)
          => /\ resp'.status = 400
             /\ resp'.message = Msg("Current password is incorrect")
             /\ users' = users]_vars

\* The stored hash was replaced by the password as typed, and a
\* change-password presenting that password has been refused.
C24_Witness ==
    /\ req.op = "password"
    /\ req.body.current_password = Some(Passw0rd)
    /\ UserOf(req.header.token) \in DOMAIN users
    /\ users[UserOf(req.header.token)].password = PlainString(Passw0rd)
    /\ resp.status = 400
    /\ resp.message = Msg("Current password is incorrect")

----------------------------------------------------------------------------
(* C25 *)
Operations == {"signup", "login", "fetch", "update", "password", "delete"}
Writes == {"create_user", "update_user", "update_password", "delete_user"}

\* Nothing is retried.  When the store call at some position of an
\* operation fails, that call is the last one the operation issues, the
\* operation returns an error and the store is as it was; when the hasher
\* fails in a signup or a change-password, the operation returns an error
\* without having issued a write.
C25_NothingIsRetried ==
    [][(req'.op \in Operations)
       => /\ (req'.env.fail > 0 /\ Len(resp'.calls) >= req'.env.fail)
             => /\ Len(resp'.calls) = req'.env.fail
                /\ ~resp'.ok
                /\ resp'.status >= 400
                /\ users' = users
                /\ next_id' = next_id
          /\ (req'.env.hash_fails /\ req'.op \in {"signup", "password"})
             => /\ ~resp'.ok
                /\ resp'.status >= 400
                /\ \A k \in 1..Len(resp'.calls) : resp'.calls[k] \notin Writes
                /\ users' = users
                /\ next_id' = next_id]_vars

\* A change-password whose third store call failed has returned after
\* three calls.
C25_Witness ==
    /\ req.op = "password"
    /\ req.env.fail = 3
    /\ resp.calls = <<"fetch_user", "fetch_user", "get_user_for_login">>
    /\ ~resp.ok

----------------------------------------------------------------------------
(* C26 *)
\* A signup that returns an error leaves the store as it was; a signup that
\* succeeds adds exactly one row, active and under an id no row had before,
\* and changes no row that was there.
C26_SignupFrame ==
    [][(req'.op = "signup")
       => IF ~resp'.ok
          THEN users' = users
          ELSE /\ resp'.id \notin DOMAIN users
               /\ DOMAIN users' = DOMAIN users \cup {resp'.id}
               /\ users'[resp'.id].active = TRUE
               /\ users'[resp'.id].id = resp'.id
               /\ \A i \in DOMAIN users : users'[i] = users[i]]_vars

\* A signup has succeeded beside a row that was there, which is as it was.
C26_Witness ==
    /\ req.op = "signup"
    /\ resp.ok
    /\ resp.id = 2
    /\ DOMAIN users = {1, 2}
    /\ users[2].active
    /\ users[1].username # users[2].username

----------------------------------------------------------------------------
(* C27 *)
\* Username and email stay unique under concurrent signups: also when the
\* lookups of two signups for the same username or the same email have both
\* run before either INSERT, no two rows have the same username or the same
\* email, so at most one of the two has created a user.
C27_UniqueUnderConcurrentSignups ==
    /\ [](\A i \in DOMAIN users : \A j \in DOMAIN users \ {i} :
             /\ users[i].username # users[j].username
             /\ users[i].email # users[j].email)
    /\ [][\A i \in DOMAIN users' \ DOMAIN users : \A j \in DOMAIN users :
             /\ users'[i].username # users[j].username
             /\ users'[i].email # users[j].email]_vars

\* A signup has passed both lookups and has been refused at its INSERT,
\* the store working: the other signup took the username in between.
C27_Witness ==
    /\ req.op = "signup"
    /\ req.env = NoFault
    /\ ~resp.ok
    /\ resp.message = MsgOf("Database error", "e")
    /\ resp.calls = <<"exists_user_by_username", "exists_user_by_email",
                      "create_user">>
    /\ HasRow(users, Unwrap(req.body.username))

----------------------------------------------------------------------------
(* C28 *)
\* Sessions are stateless.  A token that verifies under the server's key at
\* the time of the request is accepted on every protected route whatever
\* the store holds, also after its user was deleted or changed password:
\* the service method is entered and the answer is not 401.  A login
\* writes nothing to the store.
C28_SessionsAreStateless ==
    [][/\ (req'.op \in Protected /\ ~Unauthenticated(req'.header, req'.at))
          => (resp'.invoked /\ resp'.status # 401)
       /\ (req'.op = "login")
          => (users' = users /\ next_id' = next_id)]_vars

\* The token of a user who has since been deleted has been accepted: the
\* fetch was carried out and failed on the missing row.
C28_Witness ==
    /\ req.op = "fetch"
    /\ ~Unauthenticated(req.header, req.at)
    /\ UserOf(req.header.token) \notin DOMAIN users
    /\ resp.invoked
    /\ resp.calls = <<"fetch_user">>
    /\ resp.status = 500

----------------------------------------------------------------------------
(* C29 *)
\* A protected request acts on the user its token names and on no other:
\* an update-profile, a change-password or a delete carrying a valid token
\* of user A leaves the row of every other user as it was, and a fetch
\* carrying it returns the profile of A.
C29_OnlyTheTokensUser ==
    [][(req'.op \in Protected /\ ~Unauthenticated(req'.header, req'.at))
       => LET A == UserOf(req'.header.token)
          IN  /\ \A B \in DOMAIN users \ {A} :
                    B \in DOMAIN users' /\ users'[B] = users[B]
              /\ (req'.op = "fetch" /\ resp'.ok)
                 => /\ A \in DOMAIN users
                    /\ \A f \in DOMAIN resp'.user :
                          resp'.user[f] = users[A][f]]_vars

\* With two users stored, a change-password carrying the token of one of
\* them has succeeded.
C29_Witness ==
    /\ req.op = "password"
    /\ resp.ok
    /\ DOMAIN users = {1, 2}
    /\ UserOf(req.header.token) \in DOMAIN users
    /\ users[1].password # users[2].password

----------------------------------------------------------------------------
(* C30 *)
\* The passwords a stored string verifies, among those in use.
VerifiedBy(stored) ==
    {p \in {Passw0rd, Secret1, Other1} : VerifiesStored(stored, p)}

\* Of change-password requests for one user that run interleaved, each
\* having presented the password that was current when it started, the one
\* whose write comes last decides: once a request has been answered with
\* success, and until the next answer, the stored hash verifies the new
\* password of that request and no other password.
C30_LastWriteWins ==
    (req.op = "password" /\ resp.ok /\ UserOf(req.header.token) \in DOMAIN users)
    => VerifiedBy(users[UserOf(req.header.token)].password)
          = {Unwrap(req.body.new_password)}

\* One request has changed the password while another, which presented the
\* old password and passed the check of it, is suspended before its write.
C30_Witness ==
    /\ req.op = "password"
    /\ resp.ok
    /\ req.body.new_password = Some(Secret1)
    /\ VerifiedBy(users[UserOf(req.header.token)].password) = {Secret1}
    /\ \E c \in Clients :
          /\ in_flight[c].op = "password"
          /\ in_flight[c].future.pc = 4
          /\ in_flight[c].header = req.header
          /\ in_flight[c].body =
                [current_password |-> Some(Passw0rd),
                 new_password |-> Some(Other1)]

====
